---- MODULE Spec2Model ----
(***************************************************************************)
(* A model of the request pipeline of the engine: IR generation for model  *)
(* root fields and the Relay node field, lowering of the IR to NDC query   *)
(* requests, join-id assignment, and execution of the query plan.          *)
(*                                                                         *)
(* Conventions.  Rust's Result is a record with a field `ok`; Option is a  *)
(* sequence of length at most one.  Vec and IndexMap are sequences (an     *)
(* IndexMap is a sequence of [key, value] entries in insertion order).     *)
(* HashMap iteration order is unspecified: wherever the code iterates one, *)
(* the model quantifies over every order of its keys.  Strings that the    *)
(* code parses character by character are sequences of one-character       *)
(* strings; names (aliases, columns, collections) are strings.             *)
(***************************************************************************)
EXTENDS Integers, Sequences, FiniteSets, TLC

VARIABLES
    pc,           \* position of the request in the pipeline
    session,      \* Session { role, variables }
    request,      \* normalized operation: its type and root selection set
    ir,           \* IndexMap<Alias, RootField> built by generate_ir
    query_plan,   \* IndexMap<Alias, NodeQueryPlan> built by generate_query_plan
    cursor,       \* index of the root field execute_query_plan is working on
    pending,      \* the connector request in flight, if any
    joins,        \* remote joins of the current root field not yet executed
    rows,         \* the root connector response of the current root field
    sent,         \* log of every connector request issued, in order
    response,     \* IndexMap<Alias, json::Value> under construction
    outcome,      \* Result of the stage that ended the request, once it has
    call,         \* a function applied on its own: its name and arguments
    returned      \* what that function returned, once it has

vars == <<pc, session, request, ir, query_plan, cursor, pending, joins, rows, sent,
          response, outcome, call, returned>>

-----------------------------------------------------------------------------
(* Generic helpers                                                         *)

Range(s) == { s[i] : i \in 1..Len(s) }

RECURSIVE SeqsUpTo(_, _)
SeqsUpTo(S, n) ==
    IF n = 0 THEN { <<>> }
    ELSE LET shorter == SeqsUpTo(S, n - 1)
         IN  shorter \cup { Append(s, x) : s \in { t \in shorter : Len(t) = n - 1 }, x \in S }

Ok(v) == [ok |-> TRUE, val |-> v, err |-> "none"]
Err(e) == [ok |-> FALSE, val |-> <<>>, err |-> e]

\* Result::and_then and Result::map: what `?` followed by more code does.
AndThen(r, f(_)) == IF r.ok THEN f(r.val) ELSE Err(r.err)
Map(r, f(_)) == IF r.ok THEN Ok(f(r.val)) ELSE Err(r.err)

\* Result<Vec<_>, _> collected from a sequence of Results: the first error wins.
RECURSIVE FirstErr(_)
FirstErr(rs) ==
    IF rs = <<>> THEN "none"
    ELSE IF ~rs[1].ok THEN rs[1].err ELSE FirstErr(Tail(rs))

Collect(rs) ==
    IF FirstErr(rs) = "none" THEN Ok([i \in 1..Len(rs) |-> rs[i].val])
    ELSE Err(FirstErr(rs))

\* IndexMap::insert: an existing key keeps its position and takes the new value.
HasKey(m, k) == \E i \in 1..Len(m) : m[i].key = k
IndexInsert(m, k, v) ==
    IF HasKey(m, k)
    THEN [i \in 1..Len(m) |-> IF m[i].key = k THEN [key |-> k, value |-> v] ELSE m[i]]
    ELSE Append(m, [key |-> k, value |-> v])
IndexGet(m, k) == m[CHOOSE i \in 1..Len(m) : m[i].key = k].value
Keys(m) == [i \in 1..Len(m) |-> m[i].key]

-----------------------------------------------------------------------------
(* JSON scalars (serde_json::Value restricted to scalars)                  *)

JNull == [t |-> "Null", n |-> 0, s |-> <<>>, b |-> FALSE]
JNumber(i) == [t |-> "Number", n |-> i, s |-> <<>>, b |-> FALSE]
JString(cs) == [t |-> "String", n |-> 0, s |-> cs, b |-> FALSE]
JBool(x) == [t |-> "Bool", n |-> 0, s |-> <<>>, b |-> x]

Digits == <<"0", "1", "2", "3", "4", "5", "6", "7", "8", "9">>
IsDigit(c) == \E i \in 1..10 : Digits[i] = c
DigitVal(c) == (CHOOSE i \in 1..10 : Digits[i] = c) - 1

I32Max == 2147483647
I32Min == (-2147483647) - 1

\* core::num  i32::from_str: an optional sign, then one or more digits; the
\* value is accumulated with checked_mul / checked_add (checked_sub for a
\* negative number), so a value outside the i32 range is an error.
RECURSIVE AccPos(_, _)
AccPos(cs, acc) ==
    IF cs = <<>> THEN Ok(acc)
    ELSE IF ~IsDigit(cs[1]) THEN Err("InvalidDigit")
    ELSE IF acc > (I32Max - DigitVal(cs[1])) \div 10 THEN Err("PosOverflow")
    ELSE AccPos(Tail(cs), acc * 10 + DigitVal(cs[1]))

RECURSIVE AccNeg(_, _)
AccNeg(cs, acc) ==
    IF cs = <<>> THEN Ok(acc)
    ELSE IF ~IsDigit(cs[1]) THEN Err("InvalidDigit")
    ELSE IF acc < (I32Min + DigitVal(cs[1]) + 9) \div 10 THEN Err("NegOverflow")
    ELSE AccNeg(Tail(cs), acc * 10 - DigitVal(cs[1]))

\* i32::from_str clamping a value outside the i32 range to the nearest bound.
ParseI32Saturating(cs) ==
    IF cs = <<>> THEN Err("Empty")
    ELSE IF cs[1] \in {"+", "-"} /\ Len(cs) = 1 THEN Err("InvalidDigit")
    ELSE IF cs[1] = "-"
    THEN (IF AccNeg(Tail(cs), 0).err = "NegOverflow" THEN Ok(I32Min) ELSE AccNeg(Tail(cs), 0))
    ELSE IF AccPos(IF cs[1] = "+" THEN Tail(cs) ELSE cs, 0).err = "PosOverflow" THEN Ok(I32Max)
    ELSE AccPos(IF cs[1] = "+" THEN Tail(cs) ELSE cs, 0)

ParseI32(cs) ==
    IF cs = <<>> THEN Err("Empty")
    ELSE IF cs[1] = "+" THEN (IF Len(cs) = 1 THEN Err("InvalidDigit") ELSE AccPos(Tail(cs), 0))
    ELSE IF cs[1] = "-" THEN (IF Len(cs) = 1 THEN Err("InvalidDigit") ELSE AccNeg(Tail(cs), 0))
    ELSE AccPos(cs, 0)

\* serde_json::from_str on a scalar document: null, true, false, a quoted
\* string without escapes, or an integer literal ("-"? then "0" or a digit
\* string without a leading zero) within the i32 range: larger literals are
\* numbers to serde_json too, and are kept out of the inputs of a custom
\* scalar.  Anything else does not parse.
IsJsonInt(cs) ==
    LET body == IF cs # <<>> /\ cs[1] = "-" THEN Tail(cs) ELSE cs
    IN  /\ body # <<>>
        /\ \A i \in 1..Len(body) : IsDigit(body[i])
        /\ (Len(body) > 1 => body[1] # "0")

ParseJson(cs) ==
    IF cs = <<"n", "u", "l", "l">> THEN Ok(JNull)
    ELSE IF cs = <<"t", "r", "u", "e">> THEN Ok(JBool(TRUE))
    ELSE IF cs = <<"f", "a", "l", "s", "e">> THEN Ok(JBool(FALSE))
    ELSE IF Len(cs) >= 2 /\ cs[1] = "\"" /\ cs[Len(cs)] = "\""
            /\ \A i \in 2..(Len(cs) - 1) : cs[i] \notin {"\"", "\\"}
         THEN Ok(JString(SubSeq(cs, 2, Len(cs) - 1)))
    ELSE IF IsJsonInt(cs) /\ ParseI32(cs).ok THEN Ok(JNumber(ParseI32(cs).val))
    ELSE Err("JsonSyntax")

\* QualifiedTypeReference: [list |-> BOOLEAN, name |-> type name].  `list`
\* is QualifiedBaseType::List; otherwise `name` is one of the inbuilt names or
\* a custom scalar.
InbuiltTypes == {"Int", "Float", "Boolean", "String", "ID"}
NamedType(n) == [list |-> FALSE, name |-> n]
ListType(n) == [list |-> TRUE, name |-> n]

\* f32::from_str restricted to the decimal integers it round-trips exactly
\* (|value| < 2^24); every other string of the modelled inputs is not a float.
F32Exact == 16777216
ParseF32(cs) ==
    LET r == ParseI32(cs)
    IN  IF r.ok /\ r.val < F32Exact /\ r.val > -F32Exact THEN r ELSE Err("InvalidFloat")

\* typecast_session_variable with every named type treated as a custom scalar.
TypecastSessionVariableAsJson(value, to_type) ==
    IF to_type.list THEN Err("VariableArrayTypeCast")
    ELSE IF to_type.name \in {"String", "ID"} THEN Ok(JString(value))
    ELSE IF ParseJson(value).ok THEN ParseJson(value) ELSE Ok(JString(value))

TypecastSessionVariable(value, to_type) ==
    IF to_type.list THEN Err("VariableArrayTypeCast")
    ELSE CASE to_type.name = "Int" ->
                 IF ParseI32(value).ok THEN Ok(JNumber(ParseI32(value).val))
                 ELSE Err("VariableTypeCast")
           [] to_type.name = "Float" ->
                 IF ParseF32(value).ok THEN Ok(JNumber(ParseF32(value).val))
                 ELSE Err("VariableTypeCast")
           [] to_type.name = "Boolean" ->
                 IF value = <<"t", "r", "u", "e">> THEN Ok(JBool(TRUE))
                 ELSE IF value = <<"f", "a", "l", "s", "e">> THEN Ok(JBool(FALSE))
                 ELSE Err("VariableTypeCast")
           [] to_type.name \in {"String", "ID"} -> Ok(JString(value))
           [] OTHER ->
                 IF ParseJson(value).ok THEN ParseJson(value) ELSE Ok(JString(value))

-----------------------------------------------------------------------------
(* NDC expressions (ndc::models::Expression) and model predicates          *)

UnaryExpr(col, op) == [tag |-> "UnaryComparisonOperator", column |-> col, operator |-> op]
BinaryExpr(col, op, v) ==
    [tag |-> "BinaryComparisonOperator", column |-> col, operator |-> op, value |-> v]
AndExpr(es) == [tag |-> "And", expressions |-> es]
OrExpr(es) == [tag |-> "Or", expressions |-> es]
NotExpr(e) == [tag |-> "Not", expression |-> e]

\* open_dds::permissions::ValueExpression
Literal(v) == [kind |-> "Literal", lit |-> v, var |-> ""]
SessionVar(name) == [kind |-> "SessionVariable", lit |-> JNull, var |-> name]

\* resolved::model::ModelPredicate
UnaryCmp(col, op) == [tag |-> "UnaryFieldComparison", ndc_column |-> col, operator |-> op]
BinaryCmp(col, ty, op, v) ==
    [tag |-> "BinaryFieldComparison", ndc_column |-> col, argument_type |-> ty,
     operator |-> op, value |-> v]
NotP(p) == [tag |-> "Not", predicate |-> p]
AndP(ps) == [tag |-> "And", predicates |-> ps]
OrP(ps) == [tag |-> "Or", predicates |-> ps]
RelP(name, p) == [tag |-> "Relationship", name |-> name, predicate |-> p]

\* resolved::model::FilterPermission
AllowAll == [allow_all |-> TRUE, predicate |-> <<>>]
Filter(p) == [allow_all |-> FALSE, predicate |-> <<p>>]

MakeValueFromValueExpression(val_expr, field_type, session_variables) ==
    IF val_expr.kind = "Literal" THEN Ok(val_expr.lit)
    ELSE IF val_expr.var \notin DOMAIN session_variables
         THEN Err("MissingSessionVariable")
         ELSE TypecastSessionVariable(session_variables[val_expr.var], field_type)

MakePermissionBinaryBooleanExpression(ndc_column, argument_type, operator, value_expression, session_variables) ==
    Map(MakeValueFromValueExpression(value_expression, argument_type, session_variables),
        LAMBDA v : BinaryExpr(ndc_column, operator, v))

RelationshipPredicateError == "InternalGeneric: 'relationship' model predicate is not supported yet."

\* process_model_predicate with a Relationship arm that lowers the nested
\* predicate in place of failing.
RECURSIVE ProcessModelPredicateThroughRelationship(_, _)
ProcessModelPredicateThroughRelationship(model_predicate, session_variables) ==
    CASE model_predicate.tag = "UnaryFieldComparison" ->
             Ok(UnaryExpr(model_predicate.ndc_column, model_predicate.operator))
      [] model_predicate.tag = "BinaryFieldComparison" ->
             MakePermissionBinaryBooleanExpression(
                 model_predicate.ndc_column, model_predicate.argument_type,
                 model_predicate.operator, model_predicate.value, session_variables)
      [] model_predicate.tag = "Not" ->
             Map(ProcessModelPredicateThroughRelationship(model_predicate.predicate,
                                                          session_variables),
                 LAMBDA expr : NotExpr(expr))
      [] model_predicate.tag = "And" ->
             Map(Collect([i \in 1..Len(model_predicate.predicates) |->
                             ProcessModelPredicateThroughRelationship(
                                 model_predicate.predicates[i], session_variables)]),
                 LAMBDA exprs : AndExpr(exprs))
      [] model_predicate.tag = "Or" ->
             Map(Collect([i \in 1..Len(model_predicate.predicates) |->
                             ProcessModelPredicateThroughRelationship(
                                 model_predicate.predicates[i], session_variables)]),
                 LAMBDA exprs : OrExpr(exprs))
      [] model_predicate.tag = "Relationship" ->
             ProcessModelPredicateThroughRelationship(model_predicate.predicate,
                                                      session_variables)

RECURSIVE ProcessModelPredicate(_, _)
ProcessModelPredicate(model_predicate, session_variables) ==
    CASE model_predicate.tag = "UnaryFieldComparison" ->
             Ok(UnaryExpr(model_predicate.ndc_column, model_predicate.operator))
      [] model_predicate.tag = "BinaryFieldComparison" ->
             MakePermissionBinaryBooleanExpression(
                 model_predicate.ndc_column, model_predicate.argument_type,
                 model_predicate.operator, model_predicate.value, session_variables)
      [] model_predicate.tag = "Not" ->
             Map(ProcessModelPredicate(model_predicate.predicate, session_variables),
                 LAMBDA expr : NotExpr(expr))
      [] model_predicate.tag = "And" ->
             Map(Collect([i \in 1..Len(model_predicate.predicates) |->
                             ProcessModelPredicate(model_predicate.predicates[i],
                                                   session_variables)]),
                 LAMBDA exprs : AndExpr(exprs))
      [] model_predicate.tag = "Or" ->
             Map(Collect([i \in 1..Len(model_predicate.predicates) |->
                             ProcessModelPredicate(model_predicate.predicates[i],
                                                   session_variables)]),
                 LAMBDA exprs : OrExpr(exprs))
      [] model_predicate.tag = "Relationship" -> Err(RelationshipPredicateError)

-----------------------------------------------------------------------------
(* The GraphQL `where` argument and its IR (model_filter.rs)               *)

\* A `where` object is an IndexMap of input fields, each annotated
\* ModelFilterArgument { AndOp | OrOp | NotOp | Field { ndc_column } }.
WField(col, ops) == [tag |-> "Field", ndc_column |-> col, ops |-> ops, values |-> <<>>]
WAnd(objs) == [tag |-> "AndOp", ndc_column |-> "", ops |-> <<>>, values |-> objs]
WOr(objs) == [tag |-> "OrOp", ndc_column |-> "", ops |-> <<>>, values |-> objs]
WNot(obj) == [tag |-> "NotOp", ndc_column |-> "", ops |-> <<>>, values |-> <<obj>>]
Op(name, v) == [op_name |-> name, value |-> v]

BuildBinaryComparisonExpression(operator, column, value) == BinaryExpr(column, operator, value)

BuildIsNullExpression(column, value) ==
    IF value.t # "Bool" THEN Err("ValueAsBoolean")
    ELSE IF value.b THEN Ok(UnaryExpr(column, "IsNull"))
    ELSE Ok(NotExpr(UnaryExpr(column, "IsNull")))

ResolveOp(column, op) ==
    CASE op.op_name = "_eq" -> Ok(BuildBinaryComparisonExpression("Equal", column, op.value))
      [] op.op_name = "_is_null" -> BuildIsNullExpression(column, op.value)
      [] OTHER -> Ok(BuildBinaryComparisonExpression(op.op_name, column, op.value))

RECURSIVE Flatten(_)
Flatten(ss) == IF ss = <<>> THEN <<>> ELSE ss[1] \o Flatten(Tail(ss))

RECURSIVE ResolveFilterExpression(_)

\* The expressions of the objects of an _and / _or list, each object an And
\* of its own expressions.
ResolveNested(objs) ==
    Collect([i \in 1..Len(objs) |->
                Map(ResolveFilterExpression(objs[i]), LAMBDA es : AndExpr(es))])

\* One iteration of the loop of resolve_filter_expression: the expressions
\* one input field contributes.
ResolveFilterField(field) ==
    CASE field.tag = "AndOp" ->
             Map(ResolveNested(field.values), LAMBDA es : <<AndExpr(es)>>)
      [] field.tag = "OrOp" ->
             Map(ResolveNested(field.values), LAMBDA es : <<OrExpr(es)>>)
      [] field.tag = "NotOp" ->
             Map(ResolveFilterExpression(field.values[1]),
                 LAMBDA es : <<NotExpr(AndExpr(es))>>)
      [] field.tag = "Field" ->
             Collect([i \in 1..Len(field.ops) |-> ResolveOp(field.ndc_column, field.ops[i])])
      [] OTHER -> Err("UnexpectedAnnotation")

ResolveFilterExpression(fields) ==
    Map(Collect([i \in 1..Len(fields) |-> ResolveFilterField(fields[i])]),
        LAMBDA ess : Flatten(ess))

-----------------------------------------------------------------------------
(* The resolved metadata the requests run against                          *)

\* Option<T>
None == <<>>
Some(x) == <<x>>

\* TypeMapping::Object { field_mappings }: field name -> column, per object type.
FieldMappings ==
    [User  |-> [id |-> "id", name |-> "full_name", tenant_id |-> "tenant"],
     Post  |-> [id |-> "id", user_id |-> "author_id", title |-> "title"],
     Order |-> [id |-> "id", user_id |-> "customer", total |-> "total"]]

\* resolved::model::ModelSource of the model backing each object type.
ModelSources ==
    [User  |-> [data_connector |-> "db1", collection |-> "Users"],
     Post  |-> [data_connector |-> "db1", collection |-> "Posts"],
     Order |-> [data_connector |-> "db2", collection |-> "Orders"]]

\* Model::global_id_fields of the global-id source model of each typename.
GlobalIdFields ==
    [User |-> <<"id">>, Post |-> <<"id", "user_id">>, Order |-> <<"id">>]

Mapping(sf, tf) == [source_field |-> sf, target_field |-> tf]

\* Resolved relationships: source type, name, target type and field mappings.
Relationships ==
    { [source_type |-> "User", name |-> "posts", target_type |-> "Post",
       mappings |-> <<Mapping("id", "user_id")>>],
      [source_type |-> "User", name |-> "orders", target_type |-> "Order",
       mappings |-> <<Mapping("id", "user_id")>>],
      [source_type |-> "Post", name |-> "orders", target_type |-> "Order",
       mappings |-> <<Mapping("user_id", "user_id"), Mapping("id", "id")>>],
      [source_type |-> "Order", name |-> "user", target_type |-> "User",
       mappings |-> <<Mapping("user_id", "id")>>] }

RelationshipOf(source_type, name) ==
    CHOOSE r \in Relationships : r.source_type = source_type /\ r.name = name

-----------------------------------------------------------------------------
(* Normalized selection sets and the selection IR (output_type.rs)         *)

\* normalized_ast::Field of an object selection set: its alias and the output
\* annotation of its field call.  The modelled annotations are Field { name },
\* GlobalIDField { global_id_fields }, RootField(Introspection) (__typename)
\* and RelationshipToModel; `permission` is the FilterPermission the schema
\* attached to a relationship field for the session's role.
AstField(alias, name) ==
    [alias |-> alias, tag |-> "Field", name |-> name, selection_set |-> <<>>,
     permission |-> AllowAll]
AstGlobalId(alias, type) ==
    [alias |-> alias, tag |-> "GlobalIDField", name |-> type, selection_set |-> <<>>,
     permission |-> AllowAll]
AstTypename(alias) ==
    [alias |-> alias, tag |-> "Introspection", name |-> "__typename", selection_set |-> <<>>,
     permission |-> AllowAll]
AstRel(alias, name, sel, perm) ==
    [alias |-> alias, tag |-> "RelationshipToModel", name |-> name, selection_set |-> sel,
     permission |-> perm]

ColumnSel(c) == [tag |-> "Column", column |-> c]

GlobalIdColFormat(alias, field_name) == "__global_id_col_" \o alias \o "__" \o field_name

RECURSIVE BuildGlobalIdFields(_, _, _, _)
BuildGlobalIdFields(global_id_fields, field_mappings, field_alias, fields) ==
    IF global_id_fields = <<>> THEN Ok(fields)
    ELSE LET field_name == global_id_fields[1]
         IN  IF field_name \notin DOMAIN field_mappings
             THEN Err("InternalGeneric: invalid global id field in annotation")
             ELSE BuildGlobalIdFields(
                      Tail(global_id_fields), field_mappings, field_alias,
                      IndexInsert(fields, GlobalIdColFormat(field_alias, field_name),
                                  ColumnSel(field_mappings[field_name])))

\* model_selection_ir pushing the permission predicate in front of the
\* expressions of the arguments.
PermissionFoldFirst(filter_clauses, permissions_predicate, session_variables) ==
    IF permissions_predicate.allow_all THEN Ok(filter_clauses)
    ELSE Map(ProcessModelPredicate(permissions_predicate.predicate[1], session_variables),
             LAMBDA e : <<e>> \o filter_clauses)

\* model_selection_ir without the push of the permission predicate.
PermissionFoldSkipped(filter_clauses, permissions_predicate, session_variables) ==
    Ok(filter_clauses)

PermissionFold(filter_clauses, permissions_predicate, session_variables) ==
    IF permissions_predicate.allow_all THEN Ok(filter_clauses)
    ELSE Map(ProcessModelPredicate(permissions_predicate.predicate[1], session_variables),
             LAMBDA e : Append(filter_clauses, e))

RECURSIVE GenerateSelectionSetIr(_, _, _, _)

ModelSelectionIr(selection_set, data_type, model_source, arguments, filter_clauses, permissions_predicate, limit, offset, order_by, session_variables) ==
    AndThen(PermissionFold(filter_clauses, permissions_predicate, session_variables),
            LAMBDA filter_clause :
        IF data_type \notin DOMAIN FieldMappings
        THEN Err("InternalGeneric: type not found in model source type_mappings")
        ELSE Map(GenerateSelectionSetIr(selection_set, data_type,
                                        model_source.data_connector, session_variables),
                 LAMBDA selection :
                     [data_connector |-> model_source.data_connector,
                      collection |-> model_source.collection,
                      arguments |-> arguments,
                      filter_clause |-> filter_clause,
                      limit |-> limit,
                      offset |-> offset,
                      order_by |-> order_by,
                      selection |-> selection]))

\* A relationship is local when source and target share the data connector,
\* remote otherwise.  A local relationship's `name` is the serialized pair
\* (source type, relationship name), unique across the IR.
RelationshipIrName(source_type, name) == "[" \o source_type \o "," \o name \o "]"

JoinKey(sf, sc, tf, tc) ==
    [source_field |-> sf, source_column |-> sc, target_field |-> tf, target_column |-> tc]

GenerateRelationshipIr(field, source_type, data_connector, session_variables) ==
    LET rel == RelationshipOf(source_type, field.name)
        target_source == ModelSources[rel.target_type]
        join_mapping ==
            [i \in 1..Len(rel.mappings) |->
                JoinKey(rel.mappings[i].source_field,
                        FieldMappings[source_type][rel.mappings[i].source_field],
                        rel.mappings[i].target_field,
                        FieldMappings[rel.target_type][rel.mappings[i].target_field])]
        variable_filters ==
            [i \in 1..Len(join_mapping) |->
                [tag |-> "BinaryComparisonOperator", column |-> join_mapping[i].target_column,
                 operator |-> "Equal",
                 variable |-> "$" \o join_mapping[i].target_column]]
    IN  Map(ModelSelectionIr(field.selection_set, rel.target_type, target_source,
                             [k \in {} |-> [t |-> "Null", n |-> 0, s |-> <<>>, b |-> FALSE]],
                             <<>>, field.permission, None, None, None, session_variables),
            LAMBDA query :
                IF target_source.data_connector = data_connector
                THEN [tag |-> "LocalRelationship", query |-> query,
                      name |-> RelationshipIrName(source_type, field.name),
                      relationship_info |-> rel]
                ELSE [tag |-> "RemoteRelationship",
                      ir |-> [query EXCEPT !.filter_clause = @ \o variable_filters],
                      relationship_info |-> [join_mapping |-> join_mapping]])

\* One iteration of the loop of generate_selection_set_ir over
\* selection_set.fields, `fields` being the IndexMap built so far.
SelectionStep(field, data_type, data_connector, session_variables, fields) ==
    CASE field.tag = "Field" ->
             IF field.name \notin DOMAIN FieldMappings[data_type]
             THEN Err("InternalGeneric: invalid field in annotation")
             ELSE Ok(IndexInsert(fields, field.alias,
                                 ColumnSel(FieldMappings[data_type][field.name])))
      [] field.tag = "Introspection" -> Ok(fields)
      [] field.tag = "GlobalIDField" ->
             BuildGlobalIdFields(GlobalIdFields[field.name], FieldMappings[data_type],
                                 field.alias, fields)
      [] field.tag = "RelationshipToModel" ->
             Map(GenerateRelationshipIr(field, data_type, data_connector, session_variables),
                 LAMBDA relationship : IndexInsert(fields, field.alias, relationship))
      [] OTHER -> Err("UnexpectedAnnotation")

RECURSIVE SelectionFold(_, _, _, _, _)
SelectionFold(rest, data_type, data_connector, session_variables, fields) ==
    IF rest = <<>> THEN Ok(fields)
    ELSE AndThen(SelectionStep(rest[1], data_type, data_connector, session_variables, fields),
                 LAMBDA inserted :
                     SelectionFold(Tail(rest), data_type, data_connector, session_variables,
                                   inserted))

GenerateSelectionSetIr(selection_set, data_type, data_connector, session_variables) ==
    SelectionFold(selection_set, data_type, data_connector, session_variables, <<>>)

-----------------------------------------------------------------------------
(* Lowering the IR to NDC (model_selection.rs, output_type.rs)             *)

MakeHasuraPhantomField(field_name) == "__hasura_phantom_field__" \o field_name

\* JoinLocations<T>: a HashMap from alias to Location { join_node, rest },
\* modelled as a function on its key set.
EmptyJoinLocations == [k \in {} |-> <<>>]
Location(join_node, rest) == [join_node |-> join_node, rest |-> rest]
JoinInsert(locations, key, location) ==
    [k \in DOMAIN locations \cup {key} |-> IF k = key THEN location ELSE locations[k]]

\* process_relationship_definition: the NDC relationship of a local
\* relationship, its column mapping taken from the field mappings.
ProcessRelationshipDefinition(rel) ==
    [column_mapping |->
        { <<FieldMappings[rel.source_type][rel.mappings[i].source_field],
            FieldMappings[rel.target_type][rel.mappings[i].target_field]>> :
          i \in 1..Len(rel.mappings) },
     target_collection |-> ModelSources[rel.target_type].collection]

\* The phantom columns of one remote relationship, inserted in join-mapping order.
RECURSIVE InsertPhantomFields(_, _)
InsertPhantomFields(join_mapping, ndc_fields) ==
    IF join_mapping = <<>> THEN ndc_fields
    ELSE InsertPhantomFields(
             Tail(join_mapping),
             IndexInsert(ndc_fields, MakeHasuraPhantomField(join_mapping[1].source_column),
                         ColumnSel(join_mapping[1].source_column)))

JoinColumns(join_mapping) ==
    [f \in { join_mapping[i].source_field : i \in 1..Len(join_mapping) } |->
        LET k == join_mapping[CHOOSE i \in 1..Len(join_mapping) :
                                 /\ join_mapping[i].source_field = f
                                 /\ \A j \in (i + 1)..Len(join_mapping) :
                                        join_mapping[j].source_field # f]
        IN  [alias |-> MakeHasuraPhantomField(k.source_column),
             target_field |-> k.target_field, target_column |-> k.target_column]]

\* ir_to_ndc_query wrapping a sole expression in an And as well.
MergeAlwaysAnd(filter_clause) ==
    IF Len(filter_clause) = 0 THEN None ELSE Some(AndExpr(filter_clause))

Merge(filter_clause) ==
    IF Len(filter_clause) = 0 THEN None
    ELSE IF Len(filter_clause) = 1 THEN Some(filter_clause[1])
    ELSE Some(AndExpr(filter_clause))

RECURSIVE ProcessSelectionSetIr(_)
RECURSIVE IrToNdcQuery(_)
RECURSIVE IrToNdcIr(_)
RECURSIVE CollectRelationships(_, _)

\* A LocalRelationship field of process_selection_set_ir that records a
\* location whether or not the lowered query has join locations.
LocalRelationshipFieldAlwaysLocated(acc, alias, field, lowered) ==
    [ndc_fields |->
         IndexInsert(acc.ndc_fields, alias,
                     [tag |-> "Relationship", query |-> lowered.query,
                      relationship |-> field.name, arguments |-> {}]),
     join_locations |->
         JoinInsert(acc.join_locations, alias, Location(None, lowered.join_locations))]

\* A LocalRelationship field of process_selection_set_ir, `lowered` being
\* ir_to_ndc_query of its query: the NDC relationship field, and a location
\* without a join node when the lowered query has join locations.
LocalRelationshipField(acc, alias, field, lowered) ==
    [ndc_fields |->
         IndexInsert(acc.ndc_fields, alias,
                     [tag |-> "Relationship", query |-> lowered.query,
                      relationship |-> field.name, arguments |-> {}]),
     join_locations |->
         IF DOMAIN lowered.join_locations # {}
         THEN JoinInsert(acc.join_locations, alias, Location(None, lowered.join_locations))
         ELSE acc.join_locations]

\* A RemoteRelationship field of process_selection_set_ir, `lowered` being
\* ir_to_ndc_ir of its ir: the phantom columns, and a location whose join
\* node is the RemoteJoin.
RemoteRelationshipField(acc, alias, field, lowered) ==
    [ndc_fields |->
         InsertPhantomFields(field.relationship_info.join_mapping, acc.ndc_fields),
     join_locations |->
         JoinInsert(acc.join_locations, alias,
                    Location(Some([target_ndc_ir |-> lowered.query_request,
                                   target_data_connector |-> field.ir.data_connector,
                                   join_columns |->
                                       JoinColumns(field.relationship_info.join_mapping)]),
                             lowered.join_locations))]

\* One iteration of the loop of process_selection_set_ir; `acc` holds
\* ndc_fields and join_locations built so far.
ProcessField(alias, field, acc) ==
    CASE field.tag = "Column" ->
             [acc EXCEPT !.ndc_fields = IndexInsert(@, alias, ColumnSel(field.column))]
      [] field.tag = "LocalRelationship" ->
             LocalRelationshipField(acc, alias, field, IrToNdcQuery(field.query))
      [] field.tag = "RemoteRelationship" ->
             RemoteRelationshipField(acc, alias, field, IrToNdcIr(field.ir))

RECURSIVE ProcessFields(_, _)
ProcessFields(rest, acc) ==
    IF rest = <<>> THEN acc
    ELSE ProcessFields(Tail(rest), ProcessField(rest[1].key, rest[1].value, acc))

ProcessSelectionSetIr(model_selection) ==
    ProcessFields(model_selection, [ndc_fields |-> <<>>, join_locations |-> EmptyJoinLocations])

\* The Query around the processed selection set.
NdcQuery(ir_, processed) ==
    [query |-> [aggregates |-> None,
                fields |-> Some(processed.ndc_fields),
                limit |-> ir_.limit,
                offset |-> ir_.offset,
                order_by |-> ir_.order_by,
                predicate |-> Merge(ir_.filter_clause)],
     join_locations |-> processed.join_locations]

IrToNdcQuery(ir_) == NdcQuery(ir_, ProcessSelectionSetIr(ir_.selection))

\* collect_relationships: a BTreeMap from relationship name to definition,
\* modelled as a function on its key set.
CollectRelationships(selection, relationships) ==
    IF selection = <<>> THEN relationships
    ELSE LET field == selection[1].value
         IN  IF field.tag = "LocalRelationship"
             THEN CollectRelationships(
                      Tail(selection),
                      CollectRelationships(
                          field.query.selection,
                          [k \in DOMAIN relationships \cup {field.name} |->
                              IF k = field.name
                              THEN ProcessRelationshipDefinition(field.relationship_info)
                              ELSE relationships[k]]))
             ELSE CollectRelationships(Tail(selection), relationships)

\* The QueryRequest around the lowered query.
NdcQueryRequest(ir_, lowered) ==
    [query_request |-> [query |-> lowered.query,
                        collection |-> ir_.collection,
                        arguments |-> ir_.arguments,
                        collection_relationships |->
                            CollectRelationships(ir_.selection, [k \in {} |-> <<>>]),
                        variables |-> None],
     join_locations |-> lowered.join_locations]

IrToNdcIr(ir_) == NdcQueryRequest(ir_, IrToNdcQuery(ir_))

\* ir_to_ndc_ir drawing a join id from the counter it is handed and putting
\* it in the request.
IrToNdcIrNumbered(ir_, join_id_counter) ==
    [query_request |-> [IrToNdcIr(ir_).query_request EXCEPT
                            !.variables = Some(join_id_counter + 1)],
     join_locations |-> IrToNdcIr(ir_).join_locations,
     join_id_counter |-> join_id_counter + 1]

\* ir_to_ndc_ir with the `&mut MonotonicCounter` it is handed: the counter is
\* passed down to ir_to_ndc_query and process_selection_set_ir, none of which
\* reads or advances it.
IrToNdcIrWithCounter(ir_, join_id_counter) ==
    [query_request |-> IrToNdcIr(ir_).query_request,
     join_locations |-> IrToNdcIr(ir_).join_locations,
     join_id_counter |-> join_id_counter]

-----------------------------------------------------------------------------
(* IR generation for root fields (select_many.rs, select_one.rs, relay.rs) *)

\* normalized_ast::InputField of a root field call, with its annotation.
Arg(annotation) ==
    [annotation |-> annotation, int |-> 0, where |-> <<>>, value |-> JNull,
     field_name |-> "", ndc_table_argument |-> None, order |-> <<>>]
LimitArg(n) == [Arg("ModelLimitArgument") EXCEPT !.int = n]
OffsetArg(n) == [Arg("ModelOffsetArgument") EXCEPT !.int = n]
WhereArg(w) == [Arg("ModelFilterExpression") EXCEPT !.where = w]
OrderByArg(o) == [Arg("ModelOrderByExpression") EXCEPT !.order = o]
ArgsArg(as) == [Arg("ModelArgumentsExpression") EXCEPT !.where = as]
CommandArg(target, v) ==
    [Arg("CommandArgument") EXCEPT !.ndc_table_argument = target, !.value = v]
UniqueArg(f, v) == [Arg("ModelUniqueIdentifierArgument") EXCEPT !.field_name = f, !.value = v]
ModelArg(f, target, v) ==
    [Arg("ModelArgument") EXCEPT !.field_name = f, !.ndc_table_argument = target, !.value = v]

\* Value::as_int_u32
AsIntU32(n) == IF n < 0 THEN Err("ValueAsU32") ELSE Ok(n)

\* build_ndc_order_by: the order_by elements of the argument, in order.
BuildNdcOrderBy(argument) == [elements |-> argument.order]

\* build_ndc_model_arguments: a BTreeMap from NDC argument name to literal,
\* modelled as a function on its key set.
RECURSIVE BuildNdcModelArguments(_, _)
BuildNdcModelArguments(arguments, ndc_arguments) ==
    IF arguments = <<>> THEN Ok(ndc_arguments)
    ELSE LET argument == arguments[1]
         IN  IF argument.annotation # "ModelArgument" THEN Err("UnexpectedAnnotation")
             ELSE IF argument.ndc_table_argument = None THEN Err("NoArgumentSource")
             ELSE BuildNdcModelArguments(
                      Tail(arguments),
                      [k \in DOMAIN ndc_arguments \cup {argument.ndc_table_argument[1]} |->
                          IF k = argument.ndc_table_argument[1] THEN argument.value
                          ELSE ndc_arguments[k]])

NoArguments == [k \in {} |-> JNull]

\* get_select_filter_predicate: the Filter namespace annotation of the field call.
GetSelectFilterPredicate(field) ==
    IF field.namespaced = None THEN Err("FilterPermissionAnnotationNotFound")
    ELSE Ok(field.namespaced[1])

\* One iteration of the argument loop of select_many_generate_ir.
SelectManyArgument(argument, acc) ==
    CASE argument.annotation = "ModelLimitArgument" ->
             Map(AsIntU32(argument.int), LAMBDA n : [acc EXCEPT !.limit = Some(n)])
      [] argument.annotation = "ModelOffsetArgument" ->
             Map(AsIntU32(argument.int), LAMBDA n : [acc EXCEPT !.offset = Some(n)])
      [] argument.annotation = "ModelFilterExpression" ->
             Map(ResolveFilterExpression(argument.where),
                 LAMBDA es : [acc EXCEPT !.filter_clause = es])
      [] argument.annotation = "ModelArgumentsExpression" ->
             Map(BuildNdcModelArguments(argument.where, acc.model_arguments),
                 LAMBDA as : [acc EXCEPT !.model_arguments = as])
      [] argument.annotation = "ModelOrderByExpression" ->
             Ok([acc EXCEPT !.order_by = Some(BuildNdcOrderBy(argument))])
      [] OTHER -> Err("UnexpectedAnnotation")

RECURSIVE SelectManyArguments(_, _)
SelectManyArguments(arguments, acc) ==
    IF arguments = <<>> THEN Ok(acc)
    ELSE AndThen(SelectManyArgument(arguments[1], acc),
                 LAMBDA a : SelectManyArguments(Tail(arguments), a))

SelectManyGenerateIr(field, session_variables) ==
    AndThen(SelectManyArguments(
                field.arguments,
                [limit |-> None, offset |-> None, filter_clause |-> <<>>,
                 order_by |-> None, model_arguments |-> NoArguments]),
            LAMBDA args :
    AndThen(GetSelectFilterPredicate(field), LAMBDA permission :
    Map(ModelSelectionIr(field.selection_set, field.data_type, field.source[1],
                         args.model_arguments, args.filter_clause, permission,
                         args.limit, args.offset, args.order_by, session_variables),
        LAMBDA model_selection :
            [field_name |-> field.name, model_selection |-> model_selection])))

\* One iteration of the argument loop of select_one_generate_ir.
SelectOneArgument(argument, field_mappings, acc) ==
    CASE argument.annotation = "ModelArgument" ->
             Ok([acc EXCEPT !.model_argument_fields = Append(@, argument)])
      [] argument.annotation = "ModelUniqueIdentifierArgument" ->
             IF argument.field_name \notin DOMAIN field_mappings
             THEN Err("InternalGeneric: invalid unique identifier field in annotation")
             ELSE Ok([acc EXCEPT !.filter_clause =
                         Append(@, BinaryExpr(field_mappings[argument.field_name],
                                              "Equal", argument.value))])
      [] OTHER -> Err("UnexpectedAnnotation")

RECURSIVE SelectOneArguments(_, _, _)
SelectOneArguments(arguments, field_mappings, acc) ==
    IF arguments = <<>> THEN Ok(acc)
    ELSE AndThen(SelectOneArgument(arguments[1], field_mappings, acc),
                 LAMBDA a : SelectOneArguments(Tail(arguments), field_mappings, a))

SelectOneGenerateIr(field, session_variables) ==
    IF field.data_type \notin DOMAIN FieldMappings
    THEN Err("InternalGeneric: type not found in source type_mappings")
    ELSE
    AndThen(SelectOneArguments(field.arguments, FieldMappings[field.data_type],
                               [filter_clause |-> <<>>, model_argument_fields |-> <<>>]),
            LAMBDA args :
    AndThen(BuildNdcModelArguments(args.model_argument_fields, NoArguments),
            LAMBDA model_arguments :
    AndThen(GetSelectFilterPredicate(field), LAMBDA permission :
    Map(ModelSelectionIr(field.selection_set, field.data_type, field.source[1],
                         model_arguments, args.filter_clause, permission,
                         None, None, None, session_variables),
        LAMBDA model_selection :
            [field_name |-> field.name, model_selection |-> model_selection]))))

\* The `id` argument of the node field: a base64 string.  `base64` and `json`
\* say whether base64 decoding and serde_json::from_slice succeed on it, and
\* `global_id` is the GlobalID { typename, id } it then decodes to, `id`
\* being a BTreeMap from field name to value (a function on its key set).
EncodedId(typename, id) ==
    [base64 |-> TRUE, json |-> TRUE, global_id |-> [typename |-> typename, id |-> id]]
DecodeGlobalId(id_arg_value) ==
    IF ~id_arg_value.base64 THEN Err("ErrorInDecodingGlobalId")
    ELSE IF ~id_arg_value.json THEN Err("serde_json::Error")
    ELSE Ok(id_arg_value.global_id)

\* BTreeMap iteration follows the order of its keys (field names as strings).
FieldNameOrder == <<"id", "name", "tenant_id", "title", "total", "unknown", "user_id">>
FieldRank(f) == CHOOSE i \in 1..Len(FieldNameOrder) : FieldNameOrder[i] = f
RECURSIVE SortedKeys(_)
SortedKeys(S) ==
    IF S = {} THEN <<>>
    ELSE LET least == CHOOSE f \in S : \A g \in S : FieldRank(f) <= FieldRank(g)
         IN  <<least>> \o SortedKeys(S \ {least})

\* filter_field_calls_by_typename: the fields of the node field's selection
\* set that apply to the decoded typename; `typed_selection_set` maps each
\* typename T with a `... on T` fragment to the fields selected under it.
FilterFieldCallsByTypename(typed_selection_set, typename) ==
    IF typename \in DOMAIN typed_selection_set THEN typed_selection_set[typename] ELSE <<>>

\* relay_node_ir finding a select permission for every role.
RoleModelSelectPermissionAny(typename_mapping, role) == Some(AllowAll)

\* typename_mapping.model_select_permissions.get(role)
RoleModelSelectPermission(typename_mapping, role) ==
    IF role \in DOMAIN typename_mapping.model_select_permissions
    THEN Some(typename_mapping.model_select_permissions[role])
    ELSE None

\* The equality filters relay_node_ir builds from the entries of
\* global_id.id, in the order of the map.
GlobalIdFilterClauses(id, field_mappings, keys) ==
    Collect([i \in 1..Len(keys) |->
                IF keys[i] \notin DOMAIN field_mappings
                THEN Err("InternalGeneric: invalid field in annotation")
                ELSE Ok(BinaryExpr(field_mappings[keys[i]], "Equal", id[keys[i]]))])

\* relay_node_ir once the GlobalID is decoded and its typename mapping found.
NodeSelectIr(field, global_id, typename_mapping, role_model_select_permission, new_selection_set, session_variables) ==
    IF role_model_select_permission = None THEN Ok(None)
    ELSE IF typename_mapping.model_source = None THEN Err("NoSourceDataConnector")
    ELSE IF typename_mapping.type_name \notin DOMAIN FieldMappings
    THEN Err("InternalGeneric: type not found in model source type_mappings")
    ELSE
    AndThen(GlobalIdFilterClauses(global_id.id, FieldMappings[typename_mapping.type_name],
                                  SortedKeys(DOMAIN global_id.id)),
            LAMBDA filter_clauses :
    Map(ModelSelectionIr(new_selection_set, typename_mapping.type_name,
                         typename_mapping.model_source[1], NoArguments, filter_clauses,
                         role_model_select_permission[1], None, None, None,
                         session_variables),
        LAMBDA model_selection :
            Some([field_name |-> field.name,
                  model_selection |-> model_selection,
                  selection_set |-> new_selection_set])))

RelayNodeIr(field, role, session_variables) ==
    IF field.id = None THEN Err("ArgumentNotFound")
    ELSE
    AndThen(DecodeGlobalId(field.id[1]), LAMBDA global_id :
        IF global_id.typename \notin DOMAIN field.typename_mappings
        THEN Err("GlobalIDTypenameMappingNotFound")
        ELSE NodeSelectIr(field, global_id, field.typename_mappings[global_id.typename],
                          RoleModelSelectPermission(
                              field.typename_mappings[global_id.typename], role),
                          FilterFieldCallsByTypename(field.typed_selection_set,
                                                     global_id.typename),
                          session_variables))

-----------------------------------------------------------------------------
(* Commands (commands.rs, command_arguments.rs)                            *)

\* commands::DataConnectorCommand
Function(name) == [tag |-> "Function", name |-> name]
Procedure(name) == [tag |-> "Procedure", name |-> name]

\* build_ndc_command_arguments for arguments of scalar type, whose value maps
\* to itself; the results are extended into one BTreeMap in argument order.
RECURSIVE BuildNdcCommandArguments(_, _)
BuildNdcCommandArguments(arguments, command_arguments) ==
    IF arguments = <<>> THEN Ok(command_arguments)
    ELSE LET argument == arguments[1]
         IN  IF argument.annotation # "CommandArgument" THEN Err("UnexpectedAnnotation")
             ELSE IF argument.ndc_table_argument = None THEN Err("NoArgumentSource")
             ELSE BuildNdcCommandArguments(
                      Tail(arguments),
                      [k \in DOMAIN command_arguments \cup {argument.ndc_table_argument[1]} |->
                          IF k = argument.ndc_table_argument[1] THEN argument.value
                          ELSE command_arguments[k]])

\* command_generate_ir; `data_type` is the underlying object typename, None
\* for a command that returns no object.
CommandSelection(field, command_source, session_variables) ==
    IF field.underlying_object_typename = None
    THEN IF field.selection_set = <<>> THEN Ok(<<>>)
         ELSE Err("InternalGeneric: invalid field in annotation")
    ELSE GenerateSelectionSetIr(field.selection_set,
                                field.underlying_object_typename[1],
                                command_source.data_connector, session_variables)

CommandGenerateIr(field, command_source, session_variables) ==
    IF field.underlying_object_typename # None
       /\ field.underlying_object_typename[1] \notin DOMAIN FieldMappings
    THEN Err("InternalGeneric: type not found in command source type_mappings")
    ELSE
    AndThen(BuildNdcCommandArguments(field.arguments, NoArguments),
            LAMBDA command_arguments :
    Map(CommandSelection(field, command_source, session_variables),
        LAMBDA selection :
            [command_name |-> field.command_name,
             field_name |-> field.name,
             data_connector |-> command_source.data_connector,
             ndc_source |-> command_source.source,
             arguments |-> command_arguments,
             selection |-> selection]))

NdcFunctionRequest(function_name, ir_, processed) ==
    [query_request |->
         [query |-> [aggregates |-> None,
                     fields |-> Some(processed.ndc_fields),
                     limit |-> None, offset |-> None, order_by |-> None,
                     predicate |-> None],
          collection |-> function_name,
          arguments |-> ir_.arguments,
          collection_relationships |->
              CollectRelationships(ir_.selection, [k \in {} |-> <<>>]),
          variables |-> None],
     join_locations |-> processed.join_locations]

IrToNdcQueryIr(function_name, ir_) ==
    NdcFunctionRequest(function_name, ir_, ProcessSelectionSetIr(ir_.selection))

NdcProcedureRequest(procedure_name, ir_, processed) ==
    [mutation_request |->
         [operations |-> << [tag |-> "Procedure", name |-> procedure_name,
                             arguments |-> ir_.arguments,
                             fields |-> Some(processed.ndc_fields)] >>,
          collection_relationships |->
              CollectRelationships(ir_.selection, [k \in {} |-> <<>>])],
     join_locations |-> processed.join_locations]

IrToNdcMutationIr(procedure_name, ir_) ==
    NdcProcedureRequest(procedure_name, ir_, ProcessSelectionSetIr(ir_.selection))

-----------------------------------------------------------------------------
(* Root-field IR (query_root.rs, mutation_root.rs, root_field.rs)          *)

\* mk_typename on the `name` argument of __type: the empty string is not a
\* GraphQL name.
MkTypename(name) == IF name = "" THEN Err("TypeFieldInvalidGraphQlName") ELSE Ok(name)

GenerateTypeFieldIr(field, role) ==
    IF field.type_name_argument = None THEN Err("ArgumentNotFound")
    ELSE Map(MkTypename(field.type_name_argument[1]), LAMBDA type_name :
                 [root |-> "QueryRootField", tag |-> "TypeField",
                  type_name |-> type_name, role |-> role])

GenerateModelRootfieldIr(field, session_) ==
    IF field.source = None THEN Err("NoSourceDataConnector")
    ELSE IF field.kind = "SelectOne"
    THEN Map(SelectOneGenerateIr(field, session_.variables), LAMBDA r :
                 [root |-> "QueryRootField", tag |-> "ModelSelectOne", ir |-> r])
    ELSE Map(SelectManyGenerateIr(field, session_.variables), LAMBDA r :
                 [root |-> "QueryRootField", tag |-> "ModelSelectMany", ir |-> r])

GenerateCommandRootfieldIr(field, session_variables) ==
    IF field.source = None THEN Err("NoSourceDataConnector")
    ELSE Map(CommandGenerateIr(field, field.source[1], session_variables), LAMBDA r :
                 [root |-> "QueryRootField", tag |-> "CommandRepresentation", ir |-> r])

GenerateNodefieldIr(field, session_) ==
    Map(RelayNodeIr(field, session_.role, session_.variables), LAMBDA r :
            [root |-> "QueryRootField", tag |-> "NodeSelect", ir |-> r])

\* One iteration of the loop of query_root::generate_ir.
QueryRootFieldIr(type_name, field, session_) ==
    CASE field.name = "__typename" ->
             Ok([root |-> "QueryRootField", tag |-> "TypeName", type_name |-> type_name])
      [] field.name = "__schema" ->
             Ok([root |-> "QueryRootField", tag |-> "SchemaField", role |-> session_.role])
      [] field.name = "__type" -> GenerateTypeFieldIr(field, session_.role)
      [] OTHER ->
             CASE field.annotation = "Model" -> GenerateModelRootfieldIr(field, session_)
               [] field.annotation = "Command" ->
                      GenerateCommandRootfieldIr(field, session_.variables)
               [] field.annotation = "RelayNode" -> GenerateNodefieldIr(field, session_)
               [] OTHER -> Err("UnexpectedAnnotation")

\* One iteration of the loop of mutation_root::generate_ir.
MutationRootFieldIr(type_name, field, session_variables) ==
    CASE field.name = "__typename" ->
             Ok([root |-> "MutationRootField", tag |-> "TypeName", type_name |-> type_name])
      [] OTHER ->
             IF field.annotation # "Command" THEN Err("UnexpectedAnnotation")
             ELSE IF field.source = None THEN Err("NoSourceDataConnector")
             ELSE Map(CommandGenerateIr(field, field.source[1], session_variables),
                      LAMBDA r : [root |-> "MutationRootField",
                                  tag |-> "CommandRepresentation", ir |-> r])

RootFieldIr(ty, type_name, field, session_) ==
    IF ty = "Query" THEN QueryRootFieldIr(type_name, field, session_)
    ELSE MutationRootFieldIr(type_name, field, session_.variables)

\* lib.rs generate_ir: the IR of every root field in selection order, or the
\* first error.
RECURSIVE GenerateIrFrom(_, _, _, _, _)
GenerateIrFrom(ty, type_name, fields, session_, ir_) ==
    IF fields = <<>> THEN Ok(ir_)
    ELSE AndThen(RootFieldIr(ty, type_name, fields[1], session_), LAMBDA field_ir :
             GenerateIrFrom(ty, type_name, Tail(fields), session_,
                            IndexInsert(ir_, fields[1].alias, field_ir)))

GenerateIr(request_, session_) ==
    IF request_.ty = "Subscription" THEN Err("SubscriptionsNotSupported")
    ELSE IF request_.type_name = None THEN Err("NoTypenameFound")
    ELSE GenerateIrFrom(request_.ty, request_.type_name[1], request_.selection_set,
                        session_, <<>>)

-----------------------------------------------------------------------------
(* Planning and join-id assignment (query_plan.rs)                         *)

\* MonotonicCounter: new() starts at 0; get_next() increments, then returns.
NewMonotonicCounter == 0
GetNext(counter) == counter + 1

NewRemoteJoinCounter == [remote_joins |-> <<>>, counter |-> NewMonotonicCounter]

\* assign_join_id taking the next id of the counter for every join node.
AssignJoinIdFresh(join_node, state) ==
    [id |-> GetNext(state.counter),
     state |-> [remote_joins |-> Append(state.remote_joins,
                                        [rj |-> join_node, id |-> GetNext(state.counter)]),
                counter |-> GetNext(state.counter)]]

\* assign_join_id taking its id from a counter that is never advanced.
AssignJoinIdStuck(join_node, state) ==
    IF \E i \in 1..Len(state.remote_joins) : state.remote_joins[i].rj = join_node
    THEN [id |-> GetNext(NewMonotonicCounter), state |-> state]
    ELSE [id |-> GetNext(NewMonotonicCounter),
          state |-> [remote_joins |-> Append(state.remote_joins,
                                             [rj |-> join_node,
                                              id |-> GetNext(NewMonotonicCounter)]),
                     counter |-> state.counter]]

\* assign_join_id: the id of the first equal RemoteJoin of the associative
\* list, else the next id of the counter, recorded in the list.
AssignJoinId(join_node, state) ==
    IF \E i \in 1..Len(state.remote_joins) : state.remote_joins[i].rj = join_node
    THEN LET i == CHOOSE i \in 1..Len(state.remote_joins) :
                      /\ state.remote_joins[i].rj = join_node
                      /\ \A j \in 1..(i - 1) : state.remote_joins[j].rj # join_node
         IN  [id |-> state.remote_joins[i].id, state |-> state]
    ELSE LET next_id == GetNext(state.counter)
         IN  [id |-> next_id,
              state |-> [remote_joins |-> Append(state.remote_joins,
                                                 [rj |-> join_node, id |-> next_id]),
                         counter |-> next_id]]

\* assign_join_ids iterates a HashMap: the set of its possible results
\* [ids, state], one for every order in which the keys can be visited.
RECURSIVE AssignJoinIds(_, _)
RECURSIVE AssignLocations(_, _, _, _)
AssignLocations(join_locations, remaining, state, ids) ==
    IF remaining = {} THEN { [ids |-> ids, state |-> state] }
    ELSE UNION {
             LET location == join_locations[key]
                 node == IF location.join_node = None
                         THEN [id |-> None, state |-> state]
                         ELSE LET a == AssignJoinId(location.join_node[1], state)
                              IN  [id |-> Some(a.id), state |-> a.state]
             IN  UNION { AssignLocations(join_locations, remaining \ {key}, rest.state,
                                         JoinInsert(ids, key, Location(node.id, rest.ids)))
                         : rest \in AssignJoinIds(location.rest, node.state) }
             : key \in remaining }

AssignJoinIds(join_locations, state) ==
    AssignLocations(join_locations, DOMAIN join_locations, state, EmptyJoinLocations)

\* zip_with_join_ids keeping the top level of the tree only.
ZipWithJoinIdsFlat(join_locations, join_ids) ==
    Ok([key \in DOMAIN join_locations |->
           Location(IF join_locations[key].join_node # None
                       /\ join_ids[key].join_node # None
                    THEN Some([remote_join |-> join_locations[key].join_node[1],
                               join_id |-> join_ids[key].join_node[1]])
                    ELSE None,
                    EmptyJoinLocations)])

RECURSIVE ZipWithJoinIds(_, _)
ZipWithJoinIds(join_locations, join_ids) ==
    LET zipped ==
            [key \in DOMAIN join_locations |->
                IF key \notin DOMAIN join_ids
                THEN Err("InternalGeneric: unexpected; could not find {key} in join ids tree")
                ELSE LET location == join_locations[key]
                         join_id_location == join_ids[key]
                         new_node ==
                             IF location.join_node # None /\ join_id_location.join_node # None
                             THEN Some([remote_join |-> location.join_node[1],
                                        join_id |-> join_id_location.join_node[1]])
                             ELSE None
                         new_rest == ZipWithJoinIds(location.rest, join_id_location.rest)
                     IN  IF ~new_rest.ok THEN Err(new_rest.err)
                         ELSE Ok(Location(new_node, new_rest.val))]
    IN  IF \E key \in DOMAIN join_locations : ~zipped[key].ok
        THEN Err(zipped[CHOOSE key \in DOMAIN join_locations : ~zipped[key].ok].err)
        ELSE Ok([key \in DOMAIN join_locations |-> zipped[key].val])

\* The set of possible results of assign_with_join_ids.
AssignWithJoinIds(join_locations) ==
    { ZipWithJoinIds(join_locations, assigned.ids)
      : assigned \in AssignJoinIds(join_locations, NewRemoteJoinCounter) }

\* The possible ExecutionTrees over a lowered request.
ExecutionTrees(query_request, join_locations, data_connector) ==
    { Map(with_ids, LAMBDA remote_executions :
              [root_node |-> [query |-> query_request,
                              data_connector |-> data_connector],
               remote_executions |-> remote_executions])
      : with_ids \in AssignWithJoinIds(join_locations) }

LoweredExecutionTrees(lowered, data_connector) ==
    ExecutionTrees(lowered.query_request, lowered.join_locations, data_connector)

GenerateExecutionTree(ir_) == LoweredExecutionTrees(IrToNdcIr(ir_), ir_.data_connector)

\* NDCQueryExecution around each possible execution tree.
QueryExecutions(trees, tag, selection_set, execution_span_attribute, field_span_attribute, process_response_as) ==
    { Map(tree, LAMBDA execution_tree :
              [tag |-> tag,
               execution |-> Some([execution_tree |-> execution_tree,
                                   selection_set |-> selection_set,
                                   execution_span_attribute |-> execution_span_attribute,
                                   field_span_attribute |-> field_span_attribute,
                                   process_response_as |-> process_response_as])])
      : tree \in trees }

\* plan_query: the set of its possible results.
PlanQuery(ir_) ==
    CASE ir_.tag = "TypeName" -> { Ok([tag |-> "TypeName", type_name |-> ir_.type_name]) }
      [] ir_.tag = "TypeField" ->
             { Ok([tag |-> "TypeField", type_name |-> ir_.type_name, role |-> ir_.role]) }
      [] ir_.tag = "SchemaField" -> { Ok([tag |-> "SchemaField", role |-> ir_.role]) }
      [] ir_.tag = "ModelSelectOne" ->
             QueryExecutions(GenerateExecutionTree(ir_.ir.model_selection),
                             "NDCQueryExecution", ir_.ir.field_name,
                             "execute_model_select_one", ir_.ir.field_name, "Object")
      [] ir_.tag = "ModelSelectMany" ->
             QueryExecutions(GenerateExecutionTree(ir_.ir.model_selection),
                             "NDCQueryExecution", ir_.ir.field_name,
                             "execute_model_select_many", ir_.ir.field_name, "Array")
      [] ir_.tag = "NodeSelect" ->
             IF ir_.ir = None THEN { Ok([tag |-> "RelayNodeSelect", execution |-> None]) }
             ELSE QueryExecutions(GenerateExecutionTree(ir_.ir[1].model_selection),
                                  "RelayNodeSelect", ir_.ir[1].field_name,
                                  "execute_node", "node", "Object")
      [] ir_.tag = "CommandRepresentation" ->
             IF ir_.ir.ndc_source.tag # "Function"
             THEN { Err("InternalGeneric: unexpected procedure for command in Query root field") }
             ELSE QueryExecutions(
                      LoweredExecutionTrees(IrToNdcQueryIr(ir_.ir.ndc_source.name, ir_.ir),
                                            ir_.ir.data_connector),
                      "NDCQueryExecution", ir_.ir.field_name,
                      "execute_command", ir_.ir.field_name, "CommandResponse")

\* The possible NDCMutationExecutions over a lowered procedure call.
MutationExecutions(lowered, ir_) ==
    { Map(with_ids, LAMBDA join_locations :
              [tag |-> "NDCMutationExecution",
               mutation |-> [query |-> lowered.mutation_request,
                             join_locations |-> join_locations,
                             data_connector |-> ir_.data_connector,
                             selection_set |-> ir_.field_name,
                             execution_span_attribute |-> "execute_command",
                             field_span_attribute |-> ir_.field_name,
                             process_response_as |-> "CommandResponse"]])
      : with_ids \in AssignWithJoinIds(lowered.join_locations) }

\* plan_mutation: the set of its possible results.
PlanMutation(ir_) ==
    CASE ir_.tag = "TypeName" -> { Ok([tag |-> "TypeName", type_name |-> ir_.type_name]) }
      [] ir_.tag = "CommandRepresentation" ->
             IF ir_.ir.ndc_source.tag # "Procedure"
             THEN { Err("InternalGeneric: unexpected function for command in Mutation root field") }
             ELSE MutationExecutions(IrToNdcMutationIr(ir_.ir.ndc_source.name, ir_.ir),
                                     ir_.ir)

\* generate_query_plan: the set of its possible results, `plan` being the
\* IndexMap built from the fields before `fields`.
\* generate_query_plan planning a command of the wrong kind as a field that
\* needs no connector.
PlanRootFieldLenient(field) ==
    IF field.tag = "CommandRepresentation"
       /\ field.ir.ndc_source.tag
              # (IF field.root = "QueryRootField" THEN "Function" ELSE "Procedure")
    THEN { Ok([tag |-> "RelayNodeSelect", execution |-> None]) }
    ELSE IF field.root = "QueryRootField" THEN PlanQuery(field) ELSE PlanMutation(field)

PlanRootField(field) ==
    IF field.root = "QueryRootField" THEN PlanQuery(field) ELSE PlanMutation(field)

RECURSIVE GenerateQueryPlanFrom(_, _)
GenerateQueryPlanFrom(fields, plan) ==
    IF fields = <<>> THEN { Ok(plan) }
    ELSE UNION { IF ~field_plan.ok THEN { Err(field_plan.err) }
                 ELSE GenerateQueryPlanFrom(Tail(fields),
                                            IndexInsert(plan, fields[1].key, field_plan.val))
                 : field_plan \in PlanRootField(fields[1].value) }

GenerateQueryPlan(ir_) == GenerateQueryPlanFrom(ir_, <<>>)

-----------------------------------------------------------------------------
(* Execution of the query plan (operation.rs, process_response.rs)         *)

\* What a connector call can come back with: an error, or a response with
\* `rowsets` row sets (operation results for a mutation) whose first holds
\* `rows` rows.
MaxRows == 1
ConnectorError == [ok |-> FALSE, rowsets |-> 0, rows |-> 0]
ConnectorResults ==
    {ConnectorError} \cup {[ok |-> TRUE, rowsets |-> 0, rows |-> 0]}
    \cup {[ok |-> TRUE, rowsets |-> 1, rows |-> n] : n \in 0..MaxRows}

\* What resolving __schema / __type against the schema can come back with.
LocalResults == {"value", "null", "error"}

JArray(n) == [t |-> "Array", n |-> n, s |-> <<>>, b |-> FALSE]
JObject == [t |-> "Object", n |-> 1, s |-> <<>>, b |-> FALSE]

\* process_response: the first row set, shaped as a list (Array), as its
\* first row or null (Object), or as the command's rows (CommandResponse).
ProcessResponse(rows_sets, process_response_as) ==
    IF rows_sets.rowsets = 0 THEN Err("BadGDCResponse: missing rowset")
    ELSE CASE process_response_as = "Array" -> Ok(JArray(rows_sets.rows))
           [] process_response_as = "Object" ->
                  Ok(IF rows_sets.rows = 0 THEN JNull ELSE JObject)
           [] process_response_as = "CommandResponse" -> Ok(JArray(rows_sets.rows))

\* The tail of execute_ndc_mutation: the first operation result, processed
\* as a command response.
ProcessMutationResponse(connector_response, process_response_as) ==
    IF connector_response.rowsets = 0 THEN Err("BadGDCResponse: missing rowset")
    ELSE IF process_response_as # "CommandResponse"
    THEN Err("InternalGeneric: mutations without commands are not supported yet")
    ELSE Ok(JArray(connector_response.rows))

\* The join nodes of a JoinLocations<(RemoteJoin, JoinId)>, each with the
\* path of aliases that leads to it.
RECURSIVE JoinNodes(_, _)
JoinNodes(locations, path) ==
    UNION { (IF locations[key].join_node = None THEN {}
             ELSE { [path |-> Append(path, key),
                     join_id |-> locations[key].join_node[1].join_id,
                     collection |->
                         locations[key].join_node[1].remote_join.target_ndc_ir.collection,
                     data_connector |->
                         locations[key].join_node[1].remote_join.target_data_connector] })
            \cup JoinNodes(locations[key].rest, Append(path, key))
            : key \in DOMAIN locations }

\* execute_join_locations runs a join after the joins above it.
IsPrefix(p, q) == Len(p) < Len(q) /\ SubSeq(q, 1, Len(p)) = p
ReadyJoins(remaining) ==
    { j \in remaining : ~\E above \in remaining : IsPrefix(above.path, j.path) }

ConnectorRequest(alias, kind, data_connector, collection, path) ==
    [alias |-> alias, kind |-> kind, data_connector |-> data_connector,
     collection |-> collection, path |-> path]

NoRows == [ok |-> TRUE, rowsets |-> 0, rows |-> 0]

\* The nodes execute_query_plan resolves without a connector.
IsLocal(node) ==
    \/ node.tag \in {"TypeName", "TypeField", "SchemaField"}
    \/ node.tag = "RelayNodeSelect" /\ node.execution = None

ResolveLocally(node, local) ==
    CASE node.tag = "TypeName" -> Ok(JString(<<node.type_name>>))
      [] node.tag = "TypeField" ->
             IF local = "error" THEN Err("IntrospectionError")
             ELSE IF local = "null" THEN Ok(JNull)
             ELSE Ok(JObject)
      [] node.tag = "SchemaField" ->
             IF local = "error" THEN Err("IntrospectionError") ELSE Ok(JObject)
      [] node.tag = "RelayNodeSelect" -> Ok(JNull)

\* The first connector request of a node: the root query of its execution
\* tree, or its mutation.
RootRequest(alias, node) ==
    IF node.tag = "NDCMutationExecution"
    THEN ConnectorRequest(alias, "mutation", node.mutation.data_connector,
                          node.mutation.query.operations[1].name, <<>>)
    ELSE ConnectorRequest(alias, "query",
                          node.execution[1].execution_tree.root_node.data_connector,
                          node.execution[1].execution_tree.root_node.query.collection, <<>>)

-----------------------------------------------------------------------------
(* The request pipeline: generate_ir, generate_query_plan,                 *)
(* execute_query_plan                                                      *)

\* lib.rs execute_query_plan returns the error of generate_ir, or goes on
\* with its IR.
IrGenerated(r) ==
    /\ ir' = r.val
    /\ pc' = IF r.ok THEN "ir" ELSE "done"
    /\ outcome' = IF r.ok THEN None ELSE Some(Err(r.err))

DoGenerateIr ==
    /\ pc = "request"
    /\ IrGenerated(GenerateIr(request, session))
    /\ UNCHANGED <<call, returned, session, request, query_plan, cursor, pending, joins, rows, sent, response>>

DoGenerateQueryPlan ==
    /\ pc = "ir"
    /\ \E r \in GenerateQueryPlan(ir) :
           /\ query_plan' = r.val
           /\ pc' = IF r.ok THEN "plan" ELSE "done"
           /\ outcome' = IF r.ok THEN None ELSE Some(Err(r.err))
    /\ UNCHANGED <<call, returned, session, request, ir, cursor, pending, joins, rows, sent, response>>

\* execute_query_plan putting each value in front of the earlier ones.
FieldDoneInFront(alias, v) ==
    /\ response' = IF v.ok THEN <<[key |-> alias, value |-> v.val]>> \o response
                   ELSE response
    /\ cursor' = IF v.ok THEN cursor + 1 ELSE cursor
    /\ pc' = IF v.ok THEN "plan" ELSE "done"
    /\ outcome' = IF v.ok THEN None ELSE Some(Err(v.err))
    /\ pending' = None
    /\ joins' = {}
    /\ rows' = NoRows

\* The field's value is inserted under its alias and the loop moves on, or
\* the error leaves execute_query_plan through `?`.
FieldDone(alias, v) ==
    /\ response' = IF v.ok THEN IndexInsert(response, alias, v.val) ELSE response
    /\ cursor' = IF v.ok THEN cursor + 1 ELSE cursor
    /\ pc' = IF v.ok THEN "plan" ELSE "done"
    /\ outcome' = IF v.ok THEN None ELSE Some(Err(v.err))
    /\ pending' = None
    /\ joins' = {}
    /\ rows' = NoRows

\* A connector request is issued and the loop moves on to the next root
\* field without awaiting it.
IssueWithoutAwait(connector_request, remaining, root_rows) ==
    /\ pending' = Some(connector_request)
    /\ sent' = Append(sent, connector_request)
    /\ joins' = {}
    /\ rows' = root_rows
    /\ pc' = "plan"
    /\ cursor' = cursor + 1
    /\ UNCHANGED <<response, outcome>>

\* A connector request is issued and execute_query_plan suspends on it.
Issue(connector_request, remaining, root_rows) ==
    /\ pending' = Some(connector_request)
    /\ sent' = Append(sent, connector_request)
    /\ joins' = remaining
    /\ rows' = root_rows
    /\ pc' = "await"
    /\ UNCHANGED <<cursor, response, outcome>>

\* One iteration of the loop of execute_query_plan, up to its first await.
ExecuteRootField(local) ==
    /\ pc = "plan"
    /\ cursor <= Len(query_plan)
    /\ LET alias == query_plan[cursor].key
           node == query_plan[cursor].value
       IN  IF IsLocal(node)
           THEN FieldDone(alias, ResolveLocally(node, local)) /\ UNCHANGED sent
           ELSE Issue(RootRequest(alias, node), {}, NoRows)
    /\ UNCHANGED <<call, returned, session, request, ir, query_plan>>

\* The remote joins of a node that are still to run once
\* `connector_request` has come back, had the join_locations of a mutation
\* been executed like those of a query.
RemainingJoinsOfMutations(connector_request, node) ==
    CASE connector_request.kind = "mutation" -> JoinNodes(node.mutation.join_locations, <<>>)
      [] connector_request.kind = "query" ->
             JoinNodes(node.execution[1].execution_tree.remote_executions, <<>>)
      [] connector_request.kind = "join" -> joins

\* The remote joins of a node that are still to run once
\* `connector_request` has come back: execute_join_locations runs those of
\* the execution tree after the root query; the join_locations of a mutation
\* are dropped (`join_locations: _`).
RemainingJoins(connector_request, node) ==
    CASE connector_request.kind = "mutation" -> {}
      [] connector_request.kind = "query" ->
             JoinNodes(node.execution[1].execution_tree.remote_executions, <<>>)
      [] connector_request.kind = "join" -> joins

\* The value of a root field once its connector calls are over:
\* execute_ndc_mutation's for a mutation, process_response's otherwise.
ProcessNodeResponse(root_rows, node) ==
    IF node.tag = "NDCMutationExecution"
    THEN ProcessMutationResponse(root_rows, node.mutation.process_response_as)
    ELSE ProcessResponse(root_rows, node.execution[1].process_response_as)

\* The connector call in flight completes and the iteration runs on to its
\* next await or to its end.
ConnectorResponds(result) ==
    /\ pc = "await"
    /\ LET connector_request == pending[1]
           alias == query_plan[cursor].key
           node == query_plan[cursor].value
       IN  IF ~result.ok
           THEN FieldDone(alias, Err("NDCClientError")) /\ UNCHANGED sent
           ELSE LET root_rows == IF connector_request.kind = "join" THEN rows ELSE result
                    remaining == RemainingJoins(connector_request, node)
                IN  IF remaining # {}
                    THEN \E join \in ReadyJoins(remaining) :
                             Issue(ConnectorRequest(alias, "join", join.data_connector,
                                                    join.collection, join.path),
                                   remaining \ {join}, root_rows)
                    ELSE FieldDone(alias, ProcessNodeResponse(root_rows, node))
                         /\ UNCHANGED sent
    /\ UNCHANGED <<call, returned, session, request, ir, query_plan>>

\* The loop is over: execute_query_plan returns Ok(response).
ReturnResponse ==
    /\ pc = "plan"
    /\ cursor > Len(query_plan)
    /\ outcome' = Some(Ok(response))
    /\ pc' = "done"
    /\ UNCHANGED <<call, returned, session, request, ir, query_plan, cursor, pending, joins, rows, sent,
                   response>>

-----------------------------------------------------------------------------
(* The executor of the wasm entry point (lib.rs)                           *)

\* The value {"type": "query", "queryRequest": res} of an NDCQueryExecution
\* node, res being the serialized root query.
QueryValue(query_request) == [type |-> "query", queryRequest |-> query_request]

\* The match of lib.rs execute_query_plan returning the mutation request of
\* an NDCMutationExecution node the way it returns a query.
FieldResponseWithMutation(field_plan, local) ==
    CASE field_plan.tag = "TypeName" ->
             IF local = "error" THEN JNull ELSE JString(<<field_plan.type_name>>)
      [] field_plan.tag = "TypeField" -> IF local = "value" THEN JObject ELSE JNull
      [] field_plan.tag = "SchemaField" -> IF local = "error" THEN JNull ELSE JObject
      [] field_plan.tag = "RelayNodeSelect" -> JNull
      [] field_plan.tag = "NDCQueryExecution" ->
             IF local = "error" THEN JNull
             ELSE QueryValue(field_plan.execution[1].execution_tree.root_node.query)
      [] field_plan.tag = "NDCMutationExecution" ->
             IF local = "error" THEN JNull ELSE QueryValue(field_plan.mutation.query)

\* The match of lib.rs execute_query_plan: the value of one root field.
\* `local` is what resolving and serializing come back with: a value, no
\* type of that name ("null"), or a failure ("error").
FieldResponse(field_plan, local) ==
    CASE field_plan.tag = "TypeName" ->
             IF local = "error" THEN JNull ELSE JString(<<field_plan.type_name>>)
      [] field_plan.tag = "TypeField" -> IF local = "value" THEN JObject ELSE JNull
      [] field_plan.tag = "SchemaField" -> IF local = "error" THEN JNull ELSE JObject
      [] field_plan.tag = "RelayNodeSelect" -> JNull
      [] field_plan.tag = "NDCQueryExecution" ->
             IF local = "error" THEN JNull
             ELSE QueryValue(field_plan.execution[1].execution_tree.root_node.query)
      [] field_plan.tag = "NDCMutationExecution" -> JNull

\* One iteration of the loop of lib.rs execute_query_plan.
LibExecuteRootField(local) ==
    /\ pc = "plan"
    /\ cursor <= Len(query_plan)
    /\ response' = IndexInsert(response, query_plan[cursor].key,
                              FieldResponse(query_plan[cursor].value, local))
    /\ cursor' = cursor + 1
    /\ UNCHANGED <<pc, call, returned, session, request, ir, query_plan, pending, joins, rows,
                   sent, outcome>>

\* The loop is over: lib.rs execute_query_plan returns the response.
LibReturnResponse ==
    /\ pc = "plan"
    /\ cursor > Len(query_plan)
    /\ outcome' = Some(Ok(response))
    /\ pc' = "done"
    /\ UNCHANGED <<call, returned, session, request, ir, query_plan, cursor, pending, joins,
                   rows, sent, response>>

-----------------------------------------------------------------------------
(* Requests: normalized operations as the validator hands them over        *)

\* normalized_ast::Field of a root selection set with its field call: the
\* alias, the field name, the RootFieldAnnotation and what it carries, the
\* arguments, the selection set and the role's namespace annotation.
RootField(alias, name, annotation) ==
    [alias |-> alias, name |-> name, annotation |-> annotation, kind |-> "",
     data_type |-> "", source |-> None, arguments |-> <<>>, selection_set |-> <<>>,
     namespaced |-> None, id |-> None,
     typename_mappings |-> [k \in {} |-> <<>>],
     typed_selection_set |-> [k \in {} |-> <<>>],
     command_name |-> "", underlying_object_typename |-> None,
     type_name_argument |-> None]

ModelRootField(alias, name, kind, data_type, arguments, selection_set, permission) ==
    [RootField(alias, name, "Model") EXCEPT
        !.kind = kind, !.data_type = data_type, !.source = Some(ModelSources[data_type]),
        !.arguments = arguments, !.selection_set = selection_set,
        !.namespaced = Some(permission)]

NodeRootField(alias, id, typename_mappings, typed_selection_set) ==
    [RootField(alias, "node", "RelayNode") EXCEPT
        !.id = Some(id), !.typename_mappings = typename_mappings,
        !.typed_selection_set = typed_selection_set]

CommandRootField(alias, name, command_source, typename, arguments, selection_set) ==
    [RootField(alias, name, "Command") EXCEPT
        !.source = Some(command_source), !.command_name = name,
        !.underlying_object_typename = typename, !.arguments = arguments,
        !.selection_set = selection_set]

TypeRootField(alias, name) ==
    [RootField(alias, "__type", "Introspection") EXCEPT !.type_name_argument = Some(name)]

Operation(ty, selection_set) ==
    [ty |-> ty, type_name |-> Some(ty), selection_set |-> selection_set]

DistinctAliases(fields) ==
    \A i, j \in 1..Len(fields) : i # j => fields[i].alias # fields[j].alias

Roles == {"admin", "user", "guest"}

Chars7 == <<"7">>
CharsA == <<"a">>
SessionVariableSets ==
    { [k \in {} |-> <<>>], [k \in {"x-tenant"} |-> Chars7], [k \in {"x-tenant"} |-> CharsA] }

\* Select permissions a model can carry for the session's role.
TenantIs == BinaryCmp("tenant", NamedType("Int"), "Equal", SessionVar("x-tenant"))
IdIsOne == BinaryCmp("id", NamedType("Int"), "Equal", Literal(JNumber(1)))
Permissions ==
    { AllowAll,
      Filter(TenantIs),
      Filter(IdIsOne),
      Filter(AndP(<<TenantIs, NotP(UnaryCmp("full_name", "IsNull"))>>)),
      Filter(NotP(RelP("posts", TenantIs))) }

\* NodeFieldTypeNameMapping of each global-id source typename: User is
\* selectable by admin and user, Post by admin only; Order is no source.
TypenameMappings(user_permission) ==
    [User |-> [type_name |-> "User", model_source |-> Some(ModelSources["User"]),
               model_select_permissions |-> [admin |-> AllowAll, user |-> user_permission]],
     Post |-> [type_name |-> "Post", model_source |-> Some(ModelSources["Post"]),
               model_select_permissions |-> [admin |-> AllowAll]]]

NodeSelections ==
    [User |-> <<AstField("name", "name")>>, Post |-> <<AstField("title", "title")>>]

WhereIdIsOne == <<WField("id", <<Op("_eq", JNumber(1))>>)>>
WhereTwo ==
    <<WField("full_name", <<Op("_is_null", JBool(FALSE))>>),
      WOr(<< <<WField("id", <<Op("_gt", JNumber(0))>>)>>, WhereIdIsOne >>)>>
WhereBad == <<WField("id", <<Op("_is_null", JNumber(1))>>)>>

ManyArgumentSets ==
    { <<>>,
      <<WhereArg(WhereIdIsOne)>>,
      <<WhereArg(WhereTwo)>>,
      <<LimitArg(5), WhereArg(WhereIdIsOne)>>,
      <<LimitArg(-1)>>,
      <<WhereArg(WhereBad)>>,
      <<OffsetArg(1), OrderByArg(<<"id">>)>> }

OneArgumentSets ==
    { <<UniqueArg("id", JNumber(1))>>,
      <<UniqueArg("id", JNumber(1)), UniqueArg("name", JString(CharsA))>>,
      <<UniqueArg("bogus", JNumber(1))>> }

EncodedIds ==
    { EncodedId("User", [k \in {} |-> JNull]),
      EncodedId("User", [k \in {"id"} |-> JNumber(1)]),
      EncodedId("User", [k \in {"id", "name"} |-> IF k = "id" THEN JNumber(1)
                                                  ELSE JString(CharsA)]),
      EncodedId("User", [k \in {"unknown"} |-> JNumber(1)]),
      EncodedId("Post", [k \in {"id", "user_id"} |-> JNumber(1)]),
      EncodedId("Post", [k \in {"user_id"} |-> JNumber(1)]),
      EncodedId("Order", [k \in {"id"} |-> JNumber(1)]),
      [EncodedId("User", [k \in {"id"} |-> JNumber(1)]) EXCEPT !.base64 = FALSE],
      [EncodedId("User", [k \in {"id"} |-> JNumber(1)]) EXCEPT !.json = FALSE] }

UserSelection == <<AstField("id", "id"), AstField("name", "name")>>

\* One model or node root field with every combination of arguments and
\* permission.
SelectFields ==
    { ModelRootField("users", "users", "SelectMany", "User", arguments, UserSelection,
                     permission)
      : arguments \in ManyArgumentSets, permission \in Permissions }
    \cup
    { ModelRootField("user", "user_by_id", "SelectOne", "User", arguments, UserSelection,
                     permission)
      : arguments \in OneArgumentSets, permission \in Permissions }
    \cup
    { NodeRootField("node", id, TypenameMappings(permission), NodeSelections)
      : id \in EncodedIds, permission \in Permissions }

\* Root fields of every kind, with fixed arguments, for whole-request runs.
TenantSession(role) == [role |-> role, variables |-> [k \in {"x-tenant"} |-> Chars7]]

OrdersSelection == <<AstField("total", "total")>>

QueryFields ==
    { RootField("t", "__typename", "Introspection"),
      RootField("s", "__schema", "Introspection"),
      TypeRootField("ty", "User"),
      ModelRootField("users", "users", "SelectMany", "User", <<>>,
                     <<AstField("id", "id"),
                       AstRel("orders", "orders", OrdersSelection, AllowAll)>>,
                     Filter(TenantIs)),
      ModelRootField("user", "user_by_id", "SelectOne", "User",
                     <<UniqueArg("id", JNumber(1))>>, UserSelection, AllowAll),
      NodeRootField("node", EncodedId("User", [k \in {"id"} |-> JNumber(1)]),
                    TypenameMappings(Filter(TenantIs)), NodeSelections),
      CommandRootField("count", "user_count",
                       [data_connector |-> "db1", source |-> Function("user_count")],
                       None, <<CommandArg(Some("min"), JNumber(1))>>, <<>>),
      CommandRootField("bad", "create_user",
                       [data_connector |-> "db1", source |-> Procedure("create_user")],
                       Some("User"), <<>>, UserSelection) }

MutationFields ==
    { RootField("t", "__typename", "Introspection"),
      CommandRootField("create", "create_user",
                       [data_connector |-> "db1", source |-> Procedure("create_user")],
                       Some("User"), <<CommandArg(Some("name"), JString(CharsA))>>,
                       <<AstField("id", "id"),
                         AstRel("orders", "orders", OrdersSelection, AllowAll)>>),
      CommandRootField("bad", "user_count",
                       [data_connector |-> "db1", source |-> Function("user_count")],
                       None, <<>>, <<>>) }

MaxRootFields == 2

RootSelections(fields) ==
    { selection \in SeqsUpTo(fields, MaxRootFields) :
          selection # <<>> /\ DistinctAliases(selection) }

\* Selection sets with remote relationships, a local relationship over a
\* remote one, and a user alias spelled like a phantom column.
PhantomId == MakeHasuraPhantomField("id")

SelectionItems ==
    { AstField("id", "id"),
      AstField(PhantomId, "name"),
      AstRel("x", "orders", OrdersSelection, AllowAll),
      AstRel("y", "orders", OrdersSelection, AllowAll),
      AstRel("z", "orders", <<AstField("id", "id")>>, AllowAll),
      AstRel("p", "posts",
             <<AstRel("o", "orders", <<AstField("id", "id")>>, AllowAll)>>, AllowAll) }

MaxSelection == 2

SelectionSets ==
    { selection \in SeqsUpTo(SelectionItems, MaxSelection) :
          selection # <<>> /\ DistinctAliases(selection) }

UsersField(alias, selection) ==
    ModelRootField(alias, "users", "SelectMany", "User", <<>>, selection, AllowAll)

PlanRequests ==
    { <<UsersField("a", selection)>> : selection \in SelectionSets }
    \cup
    { <<UsersField("a", selection), UsersField("b", <<item>>)>>
      : selection \in SelectionSets, item \in SelectionItems }

-----------------------------------------------------------------------------
(* Resolving a relationship of the metadata (relationship.rs)              *)

\* Qualified<T>: a name with its subgraph.
Qualified(subgraph, name) == [subgraph |-> subgraph, name |-> name]

\* RelationshipMappingSource and RelationshipMappingTarget: a field path, or
\* the variant that is not a field path (Value, Argument).
FieldPath(path) == [kind |-> "FieldPath", path |-> path]
SourceValue == [kind |-> "Value", path |-> <<>>]
ModelField(path) == [kind |-> "ModelField", path |-> path]
TargetArgument == [kind |-> "Argument", path |-> <<>>]

RelationshipMapping(source_field, target_field) ==
    [source_field |-> source_field, target_field |-> target_field]

\* mk_name: the relationship's name as a GraphQL name, when it is one.
InvalidGraphQlNames == {"order items"}
MkName(name) ==
    IF name \in InvalidGraphQlNames THEN Err("InvalidGraphQlName") ELSE Ok(name)

\* The source side of one mapping: `match &relationship_mapping.source`.
ResolveMappingSource(source) ==
    IF source.kind = "Value"
    THEN Err("NotSupported: Relationship mappings from value expressions are not supported yet.")
    ELSE IF Len(source.path) = 0 THEN Err("EmptyFieldPath: source")
    ELSE IF Len(source.path) = 1 THEN Ok(source.path[1])
    ELSE Err("NotSupported: Relationships with nested field paths are not supported yet.")

\* The target side of one mapping: `match &relationship_mapping.target`.
ResolveMappingTarget(target) ==
    IF target.kind = "Argument"
    THEN Err("NotSupported: Relationship mappings to arguments expressions are not supported yet.")
    ELSE IF Len(target.path) = 0 THEN Err("EmptyFieldPath: target")
    ELSE IF Len(target.path) = 1 THEN Ok(target.path[1])
    ELSE Err("NotSupported: Relationships with nested field paths are not supported yet.")

\* The checks of one mapping without the one on the source fields seen so far.
CheckMappingAllowingRepeats(source_field, target_field, source_type, target_model, seen) ==
    IF source_field \notin source_type.fields
    THEN Err("UnknownSourceFieldInRelationshipMapping")
    ELSE IF target_field \notin target_model.type_fields
    THEN Err("UnknownTargetFieldInRelationshipMapping")
    ELSE Ok(RelationshipMapping(source_field, target_field))

\* The checks of one mapping without those on the fields of the two types.
CheckMappingAllowingUnknown(source_field, target_field, source_type, target_model, seen) ==
    IF source_field \in seen THEN Err("MappingExistsInRelationship")
    ELSE Ok(RelationshipMapping(source_field, target_field))

\* The checks of one mapping whose two sides are single fields, against the
\* source fields seen so far (field_mapping_btree_for_validation).
CheckMapping(source_field, target_field, source_type, target_model, seen) ==
    IF source_field \notin source_type.fields
    THEN Err("UnknownSourceFieldInRelationshipMapping")
    ELSE IF target_field \notin target_model.type_fields
    THEN Err("UnknownTargetFieldInRelationshipMapping")
    ELSE IF source_field \in seen THEN Err("MappingExistsInRelationship")
    ELSE Ok(RelationshipMapping(source_field, target_field))

\* One iteration of the loop of resolve_relationship_mappings.
ResolveMapping(mapping, source_type, target_model, seen) ==
    AndThen(ResolveMappingSource(mapping.source), LAMBDA source_field :
        AndThen(ResolveMappingTarget(mapping.target), LAMBDA target_field :
            CheckMapping(source_field, target_field, source_type, target_model, seen)))

\* resolve_relationship_mappings: the loop, from the mappings not yet
\* visited, with those resolved so far.
RECURSIVE ResolveMappingsFrom(_, _, _, _)
ResolveMappingsFrom(mapping, source_type, target_model, resolved) ==
    IF mapping = <<>> THEN Ok(resolved)
    ELSE AndThen(ResolveMapping(mapping[1], source_type, target_model,
                                { resolved[i].source_field : i \in 1..Len(resolved) }),
                 LAMBDA m : ResolveMappingsFrom(Tail(mapping), source_type, target_model,
                                                Append(resolved, m)))

ResolveRelationshipMappings(relationship, source_type, target_model) ==
    ResolveMappingsFrom(relationship.mapping, source_type, target_model, <<>>)

RelationshipCapabilities(relationships) == [foreach |-> <<>>, relationships |-> relationships]

\* get_relationship_capabilities without the test of query.variables.
GetRelationshipCapabilitiesAnyTarget(target_model, data_connectors) ==
    IF target_model.source = None THEN Ok(None)
    ELSE IF target_model.source[1].data_connector \notin DOMAIN data_connectors
    THEN Err("UnknownModelDataConnector")
    ELSE Ok(Some(RelationshipCapabilities(
                data_connectors[target_model.source[1].data_connector].relationships)))

\* get_relationship_capabilities
GetRelationshipCapabilities(target_model, data_connectors) ==
    IF target_model.source = None THEN Ok(None)
    ELSE IF target_model.source[1].data_connector \notin DOMAIN data_connectors
    THEN Err("UnknownModelDataConnector")
    ELSE IF ~data_connectors[target_model.source[1].data_connector].variables
    THEN Err("RelationshipTargetDoesNotSupportForEach")
    ELSE Ok(Some(RelationshipCapabilities(
                data_connectors[target_model.source[1].data_connector].relationships)))

\* The Relationship built at the end of resolve_relationship.
ResolvedRelationship(relationship, source_type_name, target_name, target_model, capabilities, mappings, field_name) ==
    [name |-> relationship.name,
     field_name |-> field_name,
     source |-> source_type_name,
     target |-> [model_name |-> target_name,
                 relationship_type |-> relationship.target.relationship_type],
     target_typename |-> target_model.data_type,
     mappings |-> mappings,
     target_capabilities |-> capabilities]

\* resolve_relationship, once the target model is found.
ResolveRelationshipTo(relationship, source_type_name, target_name, target_model, data_connectors, source_type) ==
    AndThen(GetRelationshipCapabilities(target_model, data_connectors), LAMBDA capabilities :
        AndThen(ResolveRelationshipMappings(relationship, source_type, target_model),
                LAMBDA mappings :
            Map(MkName(relationship.name), LAMBDA field_name :
                ResolvedRelationship(relationship, source_type_name, target_name, target_model,
                                     capabilities, mappings, field_name))))

\* The target model's qualified name: its own subgraph, or the relationship's.
QualifiedTargetModelName(target, subgraph) ==
    Qualified(IF target.subgraph = None THEN subgraph ELSE target.subgraph[1], target.name)

\* resolve_relationship
ResolveRelationship(relationship, subgraph, models, data_connectors, source_type) ==
    IF QualifiedTargetModelName(relationship.target, subgraph) \notin DOMAIN models
    THEN Err("UnknownTargetModelUsedInRelationship")
    ELSE ResolveRelationshipTo(relationship, Qualified(subgraph, relationship.source),
                               QualifiedTargetModelName(relationship.target, subgraph),
                               models[QualifiedTargetModelName(relationship.target, subgraph)],
                               data_connectors, source_type)

-----------------------------------------------------------------------------
(* Role visibility of relationship fields (permissions.rs, output_type.rs) *)

\* A HashMap as a function; the empty one.
EmptyMap == [k \in {} |-> <<>>]

\* get_select_permissions_namespace_annotations: each role with a select
\* permission on the model, annotated with the permission's filter.
GetSelectPermissionsNamespaceAnnotations(model) ==
    IF model.select_permissions = None THEN EmptyMap
    ELSE [role \in DOMAIN model.select_permissions[1] |->
             Some([tag |-> "Filter", filter |-> model.select_permissions[1][role].filter])]

\* get_allowed_roles_for_field
GetAllowedRolesForField(object_type_representation, field_name) ==
    { role \in DOMAIN object_type_representation.type_permissions :
        field_name \in object_type_representation.type_permissions[role].allowed_fields }

\* get_relationship_namespace_annotations reading the source side only.
GetRelationshipNamespaceAnnotationsSourceOnly(model, source_object_type_representation, target_object_type_representation, mappings) ==
    [role \in { r \in DOMAIN GetSelectPermissionsNamespaceAnnotations(model) :
                  \A i \in 1..Len(mappings) :
                      r \in GetAllowedRolesForField(source_object_type_representation,
                                                    mappings[i].source_field) } |->
        GetSelectPermissionsNamespaceAnnotations(model)[role]]

\* get_relationship_namespace_annotations
GetRelationshipNamespaceAnnotations(model, source_object_type_representation, target_object_type_representation, mappings) ==
    [role \in { r \in DOMAIN GetSelectPermissionsNamespaceAnnotations(model) :
                  \A i \in 1..Len(mappings) :
                      /\ r \in GetAllowedRolesForField(source_object_type_representation,
                                                       mappings[i].source_field)
                      /\ r \in GetAllowedRolesForField(target_object_type_representation,
                                                       mappings[i].target_field) } |->
        GetSelectPermissionsNamespaceAnnotations(model)[role]]

\* object_type_fields, for the plain fields of the type: each field,
\* conditionally namespaced by the roles whose type permission allows it.
ObjectTypeFields(object_type_representation) ==
    [field_name \in object_type_representation.fields |->
        [role \in GetAllowedRolesForField(object_type_representation, field_name) |-> None]]

\* get_node_interface_annotations exposing the interface to a role that can
\* read some global-id field.
GetNodeInterfaceAnnotationsAnyField(object_type_representation) ==
    [role \in { r \in DOMAIN object_type_representation.type_permissions :
                  \E i \in 1..Len(object_type_representation.global_id_fields) :
                      object_type_representation.global_id_fields[i]
                          \in object_type_representation.type_permissions[r].allowed_fields } |->
        None]

\* get_node_interface_annotations
GetNodeInterfaceAnnotations(object_type_representation) ==
    [role \in { r \in DOMAIN object_type_representation.type_permissions :
                  \A i \in 1..Len(object_type_representation.global_id_fields) :
                      object_type_representation.global_id_fields[i]
                          \in object_type_representation.type_permissions[r].allowed_fields } |->
        None]

\* HashMap::insert of the generated `id` field into the fields of the type.
InsertField(fields, name, namespaced) ==
    [f \in DOMAIN fields \cup {name} |-> IF f = name THEN namespaced ELSE fields[f]]

\* output_type_schema, for an object type: its fields, with the Relay `id`
\* field and the Node interface when the type has global-id fields.
OutputTypeSchema(object_type_representation) ==
    IF object_type_representation.global_id_fields = <<>>
    THEN Ok([fields |-> ObjectTypeFields(object_type_representation), interfaces |-> EmptyMap])
    ELSE IF "id" \in DOMAIN ObjectTypeFields(object_type_representation)
    THEN Err("DuplicateFieldNameGeneratedInObjectType")
    ELSE Ok([fields |-> InsertField(ObjectTypeFields(object_type_representation), "id",
                                    GetNodeInterfaceAnnotations(object_type_representation)),
             interfaces |-> [i \in {"Node"} |->
                                GetNodeInterfaceAnnotations(object_type_representation)]])

\* get_custom_output_type: the GraphQL type name registered for an object type.
GetCustomOutputType(gds, gds_type) ==
    IF gds_type \notin DOMAIN gds.types THEN Err("InternalTypeNotFound")
    ELSE IF gds.types[gds_type].graphql_output_type_name = None
    THEN Err("NoGraphQlOutputTypeNameForObject")
    ELSE Ok(gds.types[gds_type].graphql_output_type_name[1])

\* get_object_type_representation
GetObjectTypeRepresentation(gds, gds_type) ==
    IF gds_type \notin DOMAIN gds.types THEN Err("InternalTypeNotFound")
    ELSE Ok(gds.types[gds_type])

NodeFieldTypeNameMapping(model) ==
    [type_name |-> model.data_type,
     model_source |-> model.source,
     model_select_permissions |->
         IF model.select_permissions = None THEN EmptyMap ELSE model.select_permissions[1]]

\* HashMap::insert into typename_mappings.
InsertTypenameMapping(typename_mappings, typename, mapping) ==
    [t \in DOMAIN typename_mappings \cup {typename} |->
        IF t = typename THEN mapping ELSE typename_mappings[t]]

\* The test of relay_node_field on what HashMap::insert returns, dropped.
DuplicateGlobalIdSourceIgnored(typename_mappings, typename) == FALSE

\* relay_node_field: typename_mappings.insert(..).is_some()
DuplicateGlobalIdSource(typename_mappings, typename) == typename \in DOMAIN typename_mappings

\* relay_node_field: the loop over gds.metadata.models.values(), from the
\* models not yet visited, with the mappings and the roles collected so far.
RECURSIVE RelayNodeFieldFrom(_, _, _, _)
RelayNodeFieldFrom(gds, models, typename_mappings, roles) ==
    IF models = <<>>
    THEN Ok([typename_mappings |-> typename_mappings,
             relay_node_permissions |-> [role \in roles |-> None]])
    ELSE IF ~models[1].global_id_source
    THEN RelayNodeFieldFrom(gds, Tail(models), typename_mappings, roles)
    ELSE AndThen(GetCustomOutputType(gds, models[1].data_type), LAMBDA output_typename :
             AndThen(GetObjectTypeRepresentation(gds, models[1].data_type), LAMBDA representation :
                 IF DuplicateGlobalIdSource(typename_mappings, output_typename)
                 THEN Err("InternalErrorDuplicateGlobalIdSourceFound")
                 ELSE RelayNodeFieldFrom(
                          gds, Tail(models),
                          InsertTypenameMapping(typename_mappings, output_typename,
                                                NodeFieldTypeNameMapping(models[1])),
                          roles \cup DOMAIN GetNodeInterfaceAnnotations(representation))))

\* relay_node_field
RelayNodeField(gds) == RelayNodeFieldFrom(gds, gds.models, EmptyMap, {})

\* object_type_fields, for one relationship of the type: the field named
\* after the relationship, conditionally namespaced by the roles above.
RelationshipField(relationship, model, source_object_type_representation, target_object_type_representation) ==
    IF model.arguments # <<>>
    THEN Err("InternalUnsupported: Relationships to models with arguments aren't supported")
    ELSE Ok([name |-> relationship.field_name,
             annotation |-> [tag |-> "RelationshipToModel",
                             relationship_name |-> relationship.name,
                             mappings |-> relationship.mappings],
             namespaced |-> GetRelationshipNamespaceAnnotations(
                                model, source_object_type_representation,
                                target_object_type_representation, relationship.mappings)])

-----------------------------------------------------------------------------
(* Errors and their conversion for the client (operations.rs)              *)

\* ndc_client::apis::Error.  A ConnectorError carries the HTTP status and the
\* connector's ErrorResponse {message, details}; a reqwest error may carry a
\* status (0 stands for none); the other variants carry nothing the
\* conversions read.
ConnectorErrorOf(status, message, details) ==
    [tag |-> "ConnectorError", status |-> status, message |-> message, details |-> details]
TransportError(tag, status) ==
    [tag |-> tag, status |-> status, message |-> "", details |-> JNull]

\* StatusCode::OK | StatusCode::FORBIDDEN | StatusCode::CONFLICT
ExpectedStatuses == {200, 403, 409}
AnyStatus == {200, 201, 400, 403, 404, 409, 422, 500}

NDCExpected(err) == [tag |-> "NDCExpected", connector_error |-> err]
GDCClientError(ndc_error) == [tag |-> "GDCClientError", ndc_error |-> ndc_error]
Developer(e) == [tag |-> "InternalError", internal |-> [tag |-> "Developer", error |-> e]]
Engine(e) == [tag |-> "InternalError", internal |-> [tag |-> "Engine", error |-> e]]

\* impl From<ndc_client::apis::Error> for Error, with the status test dropped.
ErrorFromNdcAnyStatus(ndc_error) ==
    IF ndc_error.tag = "ConnectorError"
    THEN NDCExpected(ndc_error)
    ELSE Developer(GDCClientError(ndc_error))

\* impl From<ndc_client::apis::Error> for Error
ErrorFromNdc(ndc_error) ==
    IF ndc_error.tag = "ConnectorError" /\ ndc_error.status \in ExpectedStatuses
    THEN NDCExpected(ndc_error)
    ELSE Developer(GDCClientError(ndc_error))

\* InternalError::get_details
InternalGetDetails(internal) ==
    IF internal.tag = "Developer"
       /\ internal.error.tag = "GDCClientError"
       /\ internal.error.ndc_error.tag = "ConnectorError"
    THEN Some(internal.error.ndc_error.details)
    ELSE None

\* Error::get_details
GetDetails(error) ==
    IF error.tag = "InternalError" THEN InternalGetDetails(error.internal)
    ELSE IF error.tag = "NDCExpected" THEN Some(error.connector_error.details)
    ELSE None

\* http::StatusCode's Display: the code, then its canonical reason.
StatusReason(status) ==
    CASE status = 200 -> "OK"
      [] status = 201 -> "Created"
      [] status = 400 -> "Bad Request"
      [] status = 403 -> "Forbidden"
      [] status = 404 -> "Not Found"
      [] status = 409 -> "Conflict"
      [] status = 422 -> "Unprocessable Entity"
      [] status = 500 -> "Internal Server Error"
      [] OTHER -> "<unknown status code>"
StatusToString(status) == ToString(status) \o " " \o StatusReason(status)

\* render_ndc_error
RenderNdcError(error) ==
    CASE error.tag = "Reqwest" ->
             IF error.status # 0
             THEN "request to connector failed with status code " \o StatusToString(error.status)
             ELSE "request to connector failed: " \o error.message
      [] error.tag = "Serde" ->
             "unable to decode JSON response from connector: " \o error.message
      [] error.tag = "Io" -> "internal IO error"
      [] error.tag = "ConnectorError" ->
             "connector returned status code " \o StatusToString(error.status)
                 \o " with message: " \o error.message
      [] OTHER -> "Invalid"

\* The #[error(...)] Display of InternalDeveloperError and InternalEngineError.
InternalToString(e) ==
    CASE e.tag = "GDCClientError" -> RenderNdcError(e.ndc_error)
      [] e.tag = "VariableArrayTypeCast" -> "Typecasting to array is not supported."
      [] e.tag = "BadGDCResponse" ->
             "unexpected response from data connector: " \o e.summary
      [] e.tag = "SubscriptionsNotSupported" -> "subscription shouldn't have been validated"
      [] e.tag = "RemoteRelationshipsAreNotSupported" ->
             "remote relationships should have been handled separately"
      [] e.tag = "FilterPermissionAnnotationNotFound" ->
             "expected filter predicate but filter predicate namespaced annotation not found"
      [] e.tag = "MappingExistsInRelationship" ->
             "Mapping for source column " \o e.source_column
                 \o " already exists in the relationship " \o e.relationship_name
      [] e.tag = "InternalGeneric" -> "internal error: " \o e.description

\* The #[error(...)] Display of Error.
ErrorToString(error) ==
    CASE error.tag = "NDCExpected" -> "ndc: " \o error.connector_error.message
      [] error.tag = "ErrorInDecodingGlobalId" ->
             "The global ID " \o error.encoded_value \o " couldn't be decoded due to "
                 \o error.decoding_error
      [] error.tag = "TypeFieldInvalidGraphQlName" ->
             "'" \o error.name \o "' is not a valid GraphQL name."
      [] error.tag = "InternalError" -> InternalToString(error.internal.error)

\* details.map(|details| gql::http::Extensions { details })
Extensions(details) == [i \in 1..Len(details) |-> [details |-> details[i]]]

GraphQLError(message, extensions) ==
    [message |-> message, path |-> None, extensions |-> extensions]

\* impl From<Error> for GraphQLError without its InternalError arm: every
\* error goes through the arm for the other variants.
GraphQLErrorFromUnmasked(error) ==
    GraphQLError(ErrorToString(error), Extensions(GetDetails(error)))

\* impl From<Error> for GraphQLError whose InternalError arm keeps the details.
GraphQLErrorFromWithDetails(error) ==
    IF error.tag = "InternalError"
    THEN GraphQLError("internal error", Extensions(GetDetails(error)))
    ELSE GraphQLError(ErrorToString(error), Extensions(GetDetails(error)))

\* impl From<Error> for GraphQLError
GraphQLErrorFrom(error) ==
    IF error.tag = "InternalError"
    THEN GraphQLError("internal error", None)
    ELSE GraphQLError(ErrorToString(error), Extensions(GetDetails(error)))

\* The errors the conversions are applied to.
ErrorDetails == {JNull, JNumber(7), JString(<<"a">>)}
ErrorMessages == {"boom", "denied"}
NdcErrors ==
    { ConnectorErrorOf(status, message, details)
      : status \in AnyStatus, message \in ErrorMessages, details \in ErrorDetails }
    \cup { TransportError("Reqwest", 0), TransportError("Reqwest", 500),
           TransportError("Serde", 0), TransportError("Io", 0),
           TransportError("InvalidBaseURL", 0) }
EngineErrors ==
    { [tag |-> "SubscriptionsNotSupported"],
      [tag |-> "RemoteRelationshipsAreNotSupported"],
      [tag |-> "FilterPermissionAnnotationNotFound"],
      [tag |-> "MappingExistsInRelationship", source_column |-> "id",
       relationship_name |-> "orders"],
      [tag |-> "InternalGeneric", description |-> "unexpected procedure for command in Query root field"],
      [tag |-> "InternalGeneric", description |-> "unexpected function for command in Mutation root field"] }
\* GDCClientError is built by the conversion from an NDC client error only,
\* so the developer errors that wrap one come from ErrorFromNdc below.
DeveloperErrors ==
    { [tag |-> "VariableArrayTypeCast"], [tag |-> "BadGDCResponse", summary |-> "boom"] }
Errors ==
    { ErrorFromNdc(e) : e \in NdcErrors }
    \cup { Engine(e) : e \in EngineErrors }
    \cup { Developer(e) : e \in DeveloperErrors }
    \cup { [tag |-> "ErrorInDecodingGlobalId", encoded_value |-> "e30", decoding_error |-> "boom"],
           [tag |-> "TypeFieldInvalidGraphQlName", name |-> "1x"] }

\* Session-variable values and the types they are cast to.  The two largest
\* values are cast to the types that read them as an i32 or not at all.
SessionVariableValues ==
    { <<"t", "r", "u", "e">>,
      <<"f", "a", "l", "s", "e">>,
      <<"7">>,
      <<"-", "7">>,
      <<"+", "7">>,
      <<"0", "0", "7">>,
      <<"7", "a">>,
      <<>>,
      <<"n", "u", "l", "l">>,
      <<"\"", "a", "\"">>,
      <<"a">>,
      <<"2", "1", "4", "7", "4", "8", "3", "6", "4", "7">>,
      <<"2", "1", "4", "7", "4", "8", "3", "6", "4", "8">> }
CastTypes ==
    { NamedType(n) : n \in InbuiltTypes \cup {"Custom"} }
    \cup { ListType(n) : n \in InbuiltTypes \cup {"Custom"} }
\* Decimal strings at and beyond the bounds of the i32 range, cast to Int.
I32EdgeValues ==
    { <<"-", "2", "1", "4", "7", "4", "8", "3", "6", "4", "8">>,
      <<"-", "2", "1", "4", "7", "4", "8", "3", "6", "4", "9">>,
      <<"-", "2", "1", "4", "7", "4", "8", "3", "6", "4", "7">>,
      <<"4", "2", "9", "4", "9", "6", "7", "2", "9", "6">>,
      <<"4", "2", "9", "4", "9", "6", "7", "3", "0", "3">>,
      <<"-", "4", "2", "9", "4", "9", "6", "7", "2", "8", "9">>,
      <<"9", "9", "9", "9", "9", "9", "9", "9", "9", "9", "9">>,
      <<"0", "0", "0", "0", "0", "0", "0", "0", "0", "0", "7">>,
      <<"0", "2", "1", "4", "7", "4", "8", "3", "6", "4", "8">>,
      <<"+", "2", "1", "4", "7", "4", "8", "3", "6", "4", "7">>,
      <<"-", "0">>,
      <<"1", "9", "9", "9", "9", "9", "9", "9", "9", "9">>,
      <<"3", "0", "0", "0", "0", "0", "0", "0", "0", "0">> }
TypecastArguments ==
    (({ [value |-> value, to_type |-> to_type]
      : value \in SessionVariableValues, to_type \in CastTypes }
    \ ({ [value |-> value, to_type |-> NamedType("Float")]
         : value \in { <<"2", "1", "4", "7", "4", "8", "3", "6", "4", "7">>,
                       <<"2", "1", "4", "7", "4", "8", "3", "6", "4", "8">> } }
       \cup { [value |-> <<"2", "1", "4", "7", "4", "8", "3", "6", "4", "8">>,
               to_type |-> NamedType("Custom")] }))
     \cup { [value |-> value, to_type |-> NamedType("Int")] : value \in I32EdgeValues })

\* Permission predicates: comparisons and a Relationship node, negated and
\* combined up to two levels deep.
PredicateLeaves ==
    { TenantIs, IdIsOne, UnaryCmp("full_name", "IsNull"), RelP("posts", IdIsOne) }
PredicatesOver(inner, leaves) ==
    inner \cup { NotP(p) : p \in inner }
          \cup { AndP(<<a, b>>) : a \in inner, b \in leaves }
          \cup { AndP(<<b, a>>) : a \in inner, b \in leaves }
          \cup { OrP(<<a, b>>) : a \in inner, b \in leaves }
Predicates == PredicatesOver(PredicatesOver(PredicateLeaves, PredicateLeaves), PredicateLeaves)
PredicateArguments ==
    { [model_predicate |-> p, session_variables |-> variables]
      : p \in Predicates, variables \in SessionVariableSets }

\* The metadata relationships are resolved against: the source type User,
\* models on connectors with and without query.variables and relationships,
\* a model without a source, and a model whose connector is not declared.
ResolutionSubgraph == "default"
UserType == [fields |-> {"id", "name"}]
ModelOn(name, source) ==
    [name |-> Qualified(ResolutionSubgraph, name),
     data_type |-> Qualified(ResolutionSubgraph, "Order"),
     type_fields |-> {"user_id", "total"},
     source |-> source]
OnConnector(data_connector) == Some([data_connector |-> data_connector])
ResolutionModels ==
    [m \in { Qualified(ResolutionSubgraph, n) : n \in {"Orders", "Items", "Posts", "Notes", "Ghosts"} } |->
        CASE m.name = "Orders" -> ModelOn("Orders", OnConnector("pg"))
          [] m.name = "Items" -> ModelOn("Items", OnConnector("mongo"))
          [] m.name = "Posts" -> ModelOn("Posts", OnConnector("rest"))
          [] m.name = "Notes" -> ModelOn("Notes", None)
          [] m.name = "Ghosts" -> ModelOn("Ghosts", OnConnector("gone"))]
ResolutionDataConnectors ==
    [c \in {"pg", "mongo", "rest"} |->
        CASE c = "pg" -> [variables |-> TRUE, relationships |-> TRUE]
          [] c = "mongo" -> [variables |-> TRUE, relationships |-> FALSE]
          [] c = "rest" -> [variables |-> FALSE, relationships |-> TRUE]]

MappingSources ==
    { FieldPath(<<"id">>), FieldPath(<<"name">>), FieldPath(<<"nope">>), FieldPath(<<>>),
      FieldPath(<<"id", "name">>), SourceValue }
MappingTargets ==
    { ModelField(<<"user_id">>), ModelField(<<"nope">>), ModelField(<<>>), TargetArgument }
MaxMappings == 2
RelationshipMappings ==
    SeqsUpTo({ [source |-> source, target |-> target]
               : source \in MappingSources, target \in MappingTargets }, MaxMappings)
RelationshipTargets ==
    { [name |-> name, subgraph |-> None, relationship_type |-> "Array"]
      : name \in {"Orders", "Items", "Posts", "Notes", "Ghosts", "Nowhere"} }
    \cup { [name |-> "Orders", subgraph |-> Some("other"), relationship_type |-> "Object"] }
RelationshipsV1 ==
    { [name |-> name, source |-> "User", target |-> target, mapping |-> mapping]
      : name \in {"orders", "order items"}, target \in RelationshipTargets,
        mapping \in RelationshipMappings }

\* Permissions the schema is built from: the target model's select
\* permissions and the type permissions of the source and target types, for
\* the roles admin and user, and the resolved mappings of the relationship.
SchemaRoles == {"admin", "user"}
RoleSubsets(S) == SUBSET S
SelectPermissionSets ==
    { None } \cup { Some([role \in roles |-> [filter |-> AllowAll]]) : roles \in RoleSubsets(SchemaRoles) }
TypePermissionSets(field_sets) ==
    UNION { [roles -> { [allowed_fields |-> fields] : fields \in field_sets }]
            : roles \in RoleSubsets(SchemaRoles) }
ResolvedMappingSets ==
    { <<>>,
      <<RelationshipMapping("id", "user_id")>>,
      <<RelationshipMapping("name", "total")>>,
      <<RelationshipMapping("id", "user_id"), RelationshipMapping("name", "total")>> }
RelationshipFieldArguments ==
    { [relationship |-> [name |-> "orders", field_name |-> "orders", mappings |-> mappings],
       model |-> [arguments |-> arguments, select_permissions |-> select_permissions],
       source_object_type_representation |-> [type_permissions |-> source_permissions],
       target_object_type_representation |-> [type_permissions |-> target_permissions]]
      : mappings \in ResolvedMappingSets,
        arguments \in { <<>> },
        select_permissions \in SelectPermissionSets,
        source_permissions \in TypePermissionSets({ {"id"}, {"name"}, {"id", "name"} }),
        target_permissions \in TypePermissionSets({ {"user_id"}, {"total"}, {"user_id", "total"} }) }
    \cup { [relationship |-> [name |-> "orders", field_name |-> "orders", mappings |-> <<>>],
            model |-> [arguments |-> <<"since">>,
                       select_permissions |-> Some([role \in SchemaRoles |-> [filter |-> AllowAll]])],
            source_object_type_representation |-> [type_permissions |-> EmptyMap],
            target_object_type_representation |-> [type_permissions |-> EmptyMap]] }

\* A function of the engine applied to arguments, and what it returns.
Call(fn, args) ==
    /\ pc = "call"
    /\ session = [role |-> "admin", variables |-> <<>>]
    /\ request = Operation("Query", <<>>)
    /\ ir = <<>>
    /\ query_plan = <<>>
    /\ cursor = 1
    /\ pending = None
    /\ joins = {}
    /\ rows = NoRows
    /\ sent = <<>>
    /\ response = <<>>
    /\ outcome = None
    /\ call = Some([fn |-> fn, args |-> args])
    /\ returned = None

Called(fn) == pc = "call" /\ call[1].fn = fn
Return(value) ==
    /\ pc' = "return"
    /\ returned' = Some(value)
    /\ UNCHANGED <<call, session, request, ir, query_plan, cursor, pending, joins, rows, sent,
                   response, outcome>>
Returned(fn) == pc = "return" /\ call[1].fn = fn

DoTypecastSessionVariable ==
    /\ Called("typecast_session_variable")
    /\ Return(TypecastSessionVariable(call[1].args.value, call[1].args.to_type))
DoProcessModelPredicate ==
    /\ Called("process_model_predicate")
    /\ Return(ProcessModelPredicate(call[1].args.model_predicate,
                                    call[1].args.session_variables))
DoResolveRelationship ==
    /\ Called("resolve_relationship")
    /\ Return(ResolveRelationship(call[1].args, ResolutionSubgraph, ResolutionModels,
                                  ResolutionDataConnectors, UserType))
DoResolveRelationshipMappings ==
    /\ Called("resolve_relationship_mappings")
    /\ Return(ResolveRelationshipMappings(call[1].args.relationship, call[1].args.source_type,
                                          call[1].args.target_model))
\* Object types with and without global-id fields, one of them with a field
\* named id, under every type permission of the two roles.
ObjectTypeRepresentations ==
    { [fields |-> fields, global_id_fields |-> global_id_fields,
       type_permissions |-> type_permissions]
      : fields \in { {"uid", "name"}, {"uid", "name", "id"} },
        global_id_fields \in { <<>>, <<"uid">>, <<"uid", "name">> },
        type_permissions \in TypePermissionSets({ {}, {"uid"}, {"name"}, {"uid", "name"} }) }

DoOutputTypeSchema ==
    /\ Called("output_type_schema")
    /\ Return(OutputTypeSchema(call[1].args))

\* Resolved metadata for the node field: the object types User and Post
\* and up to MaxModels models, each on one of the two types and a global-id
\* source or not.
SchemaTypes ==
    [t \in {"User", "Post"} |->
        [graphql_output_type_name |-> Some(t),
         fields |-> {"uid", "name"},
         global_id_fields |-> <<"uid">>,
         type_permissions |->
             IF t = "User"
             THEN [role \in SchemaRoles |-> [allowed_fields |-> {"uid", "name"}]]
             ELSE [role \in {"admin"} |-> [allowed_fields |-> {"uid"}]]]]
MaxModels == 3
SchemaModelSets ==
    { [i \in 1..Len(choices) |->
          [name |-> i,
           data_type |-> choices[i].data_type,
           global_id_source |-> choices[i].global_id_source,
           source |-> None,
           select_permissions |-> Some([role \in {"admin"} |-> [filter |-> AllowAll]])]]
      : choices \in SeqsUpTo([data_type : {"User", "Post"}, global_id_source : BOOLEAN],
                             MaxModels) }

DoRelayNodeField ==
    /\ Called("relay_node_field")
    /\ Return(RelayNodeField(call[1].args))

\* Selection sets whose only relationship is local and has no remote
\* relationship below it.
LocalOnlySelections ==
    { <<AstRel("q", "posts", <<AstField("id", "id")>>, AllowAll)>>,
      <<AstField("id", "id"),
        AstRel("q", "posts", <<AstField("id", "id"), AstField("t", "title")>>, AllowAll)>> }

\* The ModelSelections of the selection sets with relationships, and the
\* states an earlier lowering call can have left the join id counter in.
LoweringIrs ==
    { generated.val[1].value.ir.model_selection
      : generated \in
            { g \in { GenerateIr(Operation("Query",
                                           <<ModelRootField("a", "users", "SelectMany", "User",
                                                            <<>>, selection, permission)>>),
                                 TenantSession("admin"))
                      : selection \in SelectionSets \cup LocalOnlySelections,
                        permission \in {AllowAll, Filter(TenantIs)} } : g.ok } }
MaxJoinIdCounter == 2
JoinIdCounters == 0..MaxJoinIdCounter

DoIrToNdcIr ==
    /\ Called("ir_to_ndc_ir")
    /\ Return(IrToNdcIrWithCounter(call[1].args.ir, call[1].args.join_id_counter))

DoRelationshipField ==
    /\ Called("object_type_fields")
    /\ Return(RelationshipField(call[1].args.relationship, call[1].args.model,
                                call[1].args.source_object_type_representation,
                                call[1].args.target_object_type_representation))
DoErrorFromNdc == Called("Error::from") /\ Return(ErrorFromNdc(call[1].args))
DoGraphQLErrorFrom == Called("GraphQLError::from") /\ Return(GraphQLErrorFrom(call[1].args))

-----------------------------------------------------------------------------
(* Specifications                                                          *)

Start(session_, request_) ==
    /\ pc = "request"
    /\ session = session_
    /\ request = request_
    /\ ir = <<>>
    /\ query_plan = <<>>
    /\ cursor = 1
    /\ pending = None
    /\ joins = {}
    /\ rows = NoRows
    /\ sent = <<>>
    /\ response = <<>>
    /\ outcome = None
    /\ call = None
    /\ returned = None

InitSelect ==
    \E role \in Roles, variables \in SessionVariableSets, field \in SelectFields :
        Start([role |-> role, variables |-> variables], Operation("Query", <<field>>))

InitQuery ==
    \E role \in Roles, selection \in RootSelections(QueryFields) :
        Start(TenantSession(role), Operation("Query", selection))

InitMutation ==
    \E role \in Roles, selection \in RootSelections(MutationFields) :
        Start(TenantSession(role), Operation("Mutation", selection))

InitSubscription ==
    \E role \in Roles : Start(TenantSession(role), Operation("Subscription", <<>>))

Init == InitSelect \/ InitQuery \/ InitMutation \/ InitSubscription

Next ==
    \/ DoGenerateIr
    \/ DoGenerateQueryPlan
    \/ \E local \in LocalResults : ExecuteRootField(local)
    \/ \E result \in ConnectorResults : ConnectorResponds(result)
    \/ ReturnResponse

Spec == Init /\ [][Next]_vars

\* Planning only, over the selection sets with relationships.
InitPlan ==
    \E selection \in PlanRequests : Start(TenantSession("admin"), Operation("Query", selection))

NextPlan ==
    \/ DoGenerateIr
    \/ DoGenerateQueryPlan

SpecPlan == InitPlan /\ [][NextPlan]_vars

\* The error conversions, applied to every error in Errors and NdcErrors.
InitErrors ==
    \/ \E ndc_error \in NdcErrors : Call("Error::from", ndc_error)
    \/ \E error \in Errors : Call("GraphQLError::from", error)

NextErrors ==
    \/ DoErrorFromNdc
    \/ DoGraphQLErrorFrom

SpecErrors == InitErrors /\ [][NextErrors]_vars

\* typecast_session_variable, applied to every value and type above.
InitTypecast ==
    \E arguments \in TypecastArguments : Call("typecast_session_variable", arguments)

NextTypecast == DoTypecastSessionVariable

SpecTypecast == InitTypecast /\ [][NextTypecast]_vars

\* process_model_predicate, applied to every predicate and session above.
InitPredicate ==
    \E arguments \in PredicateArguments : Call("process_model_predicate", arguments)

NextPredicate == DoProcessModelPredicate

SpecPredicate == InitPredicate /\ [][NextPredicate]_vars

\* resolve_relationship and resolve_relationship_mappings, applied to every
\* relationship above.
InitResolve ==
    \/ \E relationship \in RelationshipsV1 : Call("resolve_relationship", relationship)
    \/ \E relationship \in RelationshipsV1 :
           /\ QualifiedTargetModelName(relationship.target, ResolutionSubgraph)
                  \in DOMAIN ResolutionModels
           /\ Call("resolve_relationship_mappings",
                   [relationship |-> relationship,
                    source_type |-> UserType,
                    target_model |->
                        ResolutionModels[QualifiedTargetModelName(relationship.target,
                                                                  ResolutionSubgraph)]])

NextResolve ==
    \/ DoResolveRelationship
    \/ DoResolveRelationshipMappings

SpecResolve == InitResolve /\ [][NextResolve]_vars

\* object_type_fields building the field of one relationship, under every
\* combination of the permissions above.
InitSchema ==
    \/ \E arguments \in RelationshipFieldArguments : Call("object_type_fields", arguments)
    \/ \E object_type \in ObjectTypeRepresentations : Call("output_type_schema", object_type)
    \/ \E models \in SchemaModelSets :
           Call("relay_node_field", [models |-> models, types |-> SchemaTypes])

NextSchema ==
    \/ DoRelationshipField
    \/ DoOutputTypeSchema
    \/ DoRelayNodeField

SpecSchema == InitSchema /\ [][NextSchema]_vars

\* ir_to_ndc_ir, applied to every ModelSelection and counter above.
InitLower ==
    \E ir_ \in LoweringIrs, join_id_counter \in JoinIdCounters :
        Call("ir_to_ndc_ir", [ir |-> ir_, join_id_counter |-> join_id_counter])

NextLower == DoIrToNdcIr

SpecLower == InitLower /\ [][NextLower]_vars

\* The wasm entry point: IR generation, planning and the executor of lib.rs.
InitWasm == InitQuery \/ InitMutation

NextWasm ==
    \/ DoGenerateIr
    \/ DoGenerateQueryPlan
    \/ \E local \in LocalResults : LibExecuteRootField(local)
    \/ LibReturnResponse

SpecWasm == InitWasm /\ [][NextWasm]_vars

TypeOK == pc \in {"request", "ir", "plan", "await", "done", "call", "return"}

-----------------------------------------------------------------------------
(* Properties                                                              *)

\* The root field of the request with the given alias.
RootFieldOf(alias) ==
    request.selection_set[CHOOSE i \in 1..Len(request.selection_set) :
                              request.selection_set[i].alias = alias]

\* The IR entries that carry a ModelSelection, and that ModelSelection.
HasModelSelection(root_field) ==
    \/ root_field.tag \in {"ModelSelectOne", "ModelSelectMany"}
    \/ root_field.tag = "NodeSelect" /\ root_field.ir # None

ModelSelectionOf(root_field) ==
    IF root_field.tag = "NodeSelect" THEN root_field.ir[1].model_selection
    ELSE root_field.ir.model_selection

\* The FilterPermission of the session's role for the model a root field
\* selects from.
SelectPermissionOf(field) ==
    IF field.annotation = "RelayNode"
    THEN field.typename_mappings[field.id[1].global_id.typename]
             .model_select_permissions[session.role]
    ELSE field.namespaced[1]

LoweredPermission(field) ==
    ProcessModelPredicate(SelectPermissionOf(field).predicate[1], session.variables).val

\* The expressions the user's where / unique-identifier / global-id
\* arguments of a root field lower to, in argument order.
UserFilterClauses(field) ==
    CASE field.annotation = "RelayNode" ->
             GlobalIdFilterClauses(
                 field.id[1].global_id.id,
                 FieldMappings[field.typename_mappings[field.id[1].global_id.typename]
                                   .type_name],
                 SortedKeys(DOMAIN field.id[1].global_id.id)).val
      [] field.kind = "SelectOne" ->
             SelectOneArguments(field.arguments, FieldMappings[field.data_type],
                                [filter_clause |-> <<>>,
                                 model_argument_fields |-> <<>>]).val.filter_clause
      [] OTHER ->
             SelectManyArguments(field.arguments,
                                 [limit |-> None, offset |-> None, filter_clause |-> <<>>,
                                  order_by |-> None,
                                  model_arguments |-> NoArguments]).val.filter_clause

\* The predicate of the root NDC query planned for a root field.
PlannedPredicate(node) == node.execution[1].execution_tree.root_node.query.query.predicate

IsTopLevelConjunct(e, predicate) ==
    /\ predicate # None
    /\ \/ predicate[1] = e
       \/ /\ predicate[1].tag = "And"
          /\ \E j \in 1..Len(predicate[1].expressions) : predicate[1].expressions[j] = e

\* C1: whenever the role's permission on the model of a select-one,
\* select-many or relay-node root field is Filter(p), the lowered p is an
\* element of the ModelSelection's filter_clause and a top-level conjunct of
\* the planned NDC predicate, whatever arguments the user supplies; with
\* AllowAll the filter_clause holds the user's expressions and nothing else.
C1_PermissionEnforced ==
    /\ \A i \in 1..Len(ir) :
           HasModelSelection(ir[i].value) =>
               IF SelectPermissionOf(RootFieldOf(ir[i].key)).allow_all
               THEN ModelSelectionOf(ir[i].value).filter_clause
                        = UserFilterClauses(RootFieldOf(ir[i].key))
               ELSE \E j \in 1..Len(ModelSelectionOf(ir[i].value).filter_clause) :
                        ModelSelectionOf(ir[i].value).filter_clause[j]
                            = LoweredPermission(RootFieldOf(ir[i].key))
    /\ \A i \in 1..Len(query_plan) :
           HasModelSelection(IndexGet(ir, query_plan[i].key)) =>
               IF SelectPermissionOf(RootFieldOf(query_plan[i].key)).allow_all
               THEN PlannedPredicate(query_plan[i].value)
                        = Merge(UserFilterClauses(RootFieldOf(query_plan[i].key)))
               ELSE IsTopLevelConjunct(LoweredPermission(RootFieldOf(query_plan[i].key)),
                                       PlannedPredicate(query_plan[i].value))

\* A planned field of a given shape whose permission is Filter(p).
PlannedUnderFilter(tag, clauses) ==
    /\ Len(query_plan) = 1
    /\ ir[1].value.tag = tag
    /\ HasModelSelection(ir[1].value)
    /\ ~SelectPermissionOf(RootFieldOf(ir[1].key)).allow_all
    /\ Len(UserFilterClauses(RootFieldOf(ir[1].key))) = clauses

\* Select-many with two where expressions, select-one, and a relay node
\* each planned under a Filter permission, and select-many without any
\* user filter.
C1_Witness ==
    /\ PlannedUnderFilter("ModelSelectMany", 2)
    /\ IsTopLevelConjunct(LoweredPermission(RootFieldOf(ir[1].key)),
                          PlannedPredicate(query_plan[1].value))
C1_WitnessNoArguments == PlannedUnderFilter("ModelSelectMany", 0)
C1_WitnessSelectOne == PlannedUnderFilter("ModelSelectOne", 1)
C1_WitnessRelay == PlannedUnderFilter("NodeSelect", 1)

\* C2: when execute_query_plan returns a response, its keys are the root-field
\* aliases of the request, each once, in selection order; the plan carries
\* the aliases of the IR in the IR's order, which is the request's.
RequestAliases == [i \in 1..Len(request.selection_set) |-> request.selection_set[i].alias]

C2_ResponseOrder ==
    /\ (pc = "done" /\ outcome # None /\ outcome[1].ok)
           => Keys(outcome[1].val) = RequestAliases
    /\ pc \in {"ir", "plan", "await"} => Keys(ir) = RequestAliases
    /\ pc \in {"plan", "await"} => Keys(query_plan) = Keys(ir)

\* A response with two root fields, one of them fetched from a connector.
C2_Witness ==
    /\ pc = "done"
    /\ outcome # None
    /\ outcome[1].ok
    /\ Len(outcome[1].val) = 2
    /\ sent # <<>>

\* C3 (as the specification states it): an error raised while executing one
\* root field does not keep the other root fields of the plan from being
\* executed and from appearing in the response.
C3_NoShortCircuit ==
    (pc = "done" /\ Len(query_plan) > 0) =>
        \A i \in 1..Len(query_plan) : i # cursor => HasKey(response, query_plan[i].key)

\* A connector error on the first of two root fields has ended the request.
C3_Witness ==
    /\ pc = "done"
    /\ Len(query_plan) = 2
    /\ cursor = 1
    /\ Len(sent) = 1
    /\ outcome = Some(Err("NDCClientError"))

\* C4 (as the code has it): under Filter(p) the filter_clause is the user's
\* filter expressions in their order followed by the lowered p, and the
\* planned NDC predicate is the merge of exactly that sequence.
C4_PermissionLast ==
    /\ \A i \in 1..Len(ir) :
           (/\ HasModelSelection(ir[i].value)
            /\ ~SelectPermissionOf(RootFieldOf(ir[i].key)).allow_all)
           => ModelSelectionOf(ir[i].value).filter_clause
                  = Append(UserFilterClauses(RootFieldOf(ir[i].key)),
                           LoweredPermission(RootFieldOf(ir[i].key)))
    /\ \A i \in 1..Len(query_plan) :
           (/\ HasModelSelection(IndexGet(ir, query_plan[i].key))
            /\ ~SelectPermissionOf(RootFieldOf(query_plan[i].key)).allow_all
            /\ UserFilterClauses(RootFieldOf(query_plan[i].key)) # <<>>)
           => PlannedPredicate(query_plan[i].value)
                  = Some(AndExpr(Append(UserFilterClauses(RootFieldOf(query_plan[i].key)),
                                        LoweredPermission(RootFieldOf(query_plan[i].key)))))

\* C4 (as the specification states it): the lowered permission predicate is
\* the first element of the And, followed by the user's filter expressions.
C4_PermissionFirst ==
    \A i \in 1..Len(query_plan) :
        (/\ HasModelSelection(IndexGet(ir, query_plan[i].key))
         /\ ~SelectPermissionOf(RootFieldOf(query_plan[i].key)).allow_all
         /\ UserFilterClauses(RootFieldOf(query_plan[i].key)) # <<>>)
        => PlannedPredicate(query_plan[i].value)
               = Some(AndExpr(<<LoweredPermission(RootFieldOf(query_plan[i].key))>>
                              \o UserFilterClauses(RootFieldOf(query_plan[i].key))))

\* A select-many planned under Filter(p) with user filter expressions that
\* differ from the lowered p.
C4_Witness ==
    /\ PlannedUnderFilter("ModelSelectMany", 2)
    /\ \A j \in 1..2 : UserFilterClauses(RootFieldOf(ir[1].key))[j]
                           # LoweredPermission(RootFieldOf(ir[1].key))

\* The node root field under `alias` decodes to a typename whose global-id
\* source model the session's role has no select permission on.
NodeWithoutPermission(alias) ==
    /\ RootFieldOf(alias).annotation = "RelayNode"
    /\ RootFieldOf(alias).id # None
    /\ RootFieldOf(alias).id[1].base64
    /\ RootFieldOf(alias).id[1].json
    /\ RootFieldOf(alias).id[1].global_id.typename
           \in DOMAIN RootFieldOf(alias).typename_mappings
    /\ session.role \notin
           DOMAIN RootFieldOf(alias)
                      .typename_mappings[RootFieldOf(alias).id[1].global_id.typename]
                      .model_select_permissions

\* C5: for a node field whose role lacks the select permission, relay_node_ir
\* returns None, the plan holds RelayNodeSelect(None), the executor puts null
\* under the alias once it is past the field, and no connector request is
\* ever issued for the field.
C5_NodeWithoutPermissionIsNull ==
    /\ \A i \in 1..Len(ir) :
           NodeWithoutPermission(ir[i].key)
               => ir[i].value.tag = "NodeSelect" /\ ir[i].value.ir = None
    /\ \A i \in 1..Len(query_plan) :
           NodeWithoutPermission(query_plan[i].key)
               => /\ query_plan[i].value = [tag |-> "RelayNodeSelect", execution |-> None]
                  /\ cursor > i => /\ HasKey(response, query_plan[i].key)
                                   /\ IndexGet(response, query_plan[i].key) = JNull
    /\ \A k \in 1..Len(sent) : ~NodeWithoutPermission(sent[k].alias)

\* The response is returned with null under the alias of such a node field,
\* next to a field that was fetched from a connector.
C5_Witness ==
    /\ pc = "done"
    /\ outcome # None
    /\ outcome[1].ok
    /\ sent # <<>>
    /\ \E i \in 1..Len(response) :
           NodeWithoutPermission(response[i].key) /\ response[i].value = JNull

\* C6 (as the specification states it): relay_node_ir produces a
\* ModelSelection only for a GlobalID whose id object has exactly the
\* global_id_fields of the source model as its field names.
C6_GlobalIdFieldsMatch ==
    \A i \in 1..Len(ir) :
        (ir[i].value.tag = "NodeSelect" /\ ir[i].value.ir # None)
            => DOMAIN RootFieldOf(ir[i].key).id[1].global_id.id
                   = Range(GlobalIdFields[RootFieldOf(ir[i].key).id[1].global_id.typename])

\* A GlobalID with an empty id object has been lowered into a ModelSelection.
C6_Witness ==
    /\ Len(ir) = 1
    /\ ir[1].value.tag = "NodeSelect"
    /\ ir[1].value.ir # None
    /\ DOMAIN RootFieldOf(ir[1].key).id[1].global_id.id = {}

\* C7: the root query request planned for a ModelSelection S has S's
\* collection, and its predicate is None for an empty filter_clause, the sole
\* expression for one of length one, and the And of the whole filter_clause
\* in its order otherwise.
C7_LoweredPredicate ==
    \A i \in 1..Len(query_plan) :
        HasModelSelection(IndexGet(ir, query_plan[i].key)) =>
            /\ query_plan[i].value.execution[1].execution_tree.root_node.query.collection
                   = ModelSelectionOf(IndexGet(ir, query_plan[i].key)).collection
            /\ PlannedPredicate(query_plan[i].value)
                   = CASE Len(ModelSelectionOf(IndexGet(ir, query_plan[i].key)).filter_clause) = 0
                            -> None
                       [] Len(ModelSelectionOf(IndexGet(ir, query_plan[i].key)).filter_clause) = 1
                            -> Some(ModelSelectionOf(IndexGet(ir, query_plan[i].key))
                                        .filter_clause[1])
                       [] OTHER
                            -> Some([tag |-> "And",
                                     expressions |->
                                         ModelSelectionOf(IndexGet(ir, query_plan[i].key))
                                             .filter_clause])

\* ModelSelections with no, one and three filter expressions have been
\* planned.
PlannedWithClauses(n) ==
    /\ Len(query_plan) = 1
    /\ HasModelSelection(ir[1].value)
    /\ Len(ModelSelectionOf(ir[1].value).filter_clause) = n
C7_Witness == PlannedWithClauses(3)
C7_WitnessNone == PlannedWithClauses(0)
C7_WitnessSole == PlannedWithClauses(1)

\* The JoinLocations<(RemoteJoin, JoinId)> of a node of the plan, and the
\* (RemoteJoin, JoinId) pairs anywhere in such a tree.
RemoteExecutionsOf(node) ==
    IF node.tag = "NDCMutationExecution" THEN node.mutation.join_locations
    ELSE IF node.tag \in {"NDCQueryExecution", "RelayNodeSelect"} /\ node.execution # None
    THEN node.execution[1].execution_tree.remote_executions
    ELSE EmptyJoinLocations

RECURSIVE TreeJoinNodes(_)
TreeJoinNodes(locations) ==
    UNION { (IF locations[key].join_node = None THEN {} ELSE { locations[key].join_node[1] })
            \cup TreeJoinNodes(locations[key].rest)
            : key \in DOMAIN locations }

PlanJoinNodes ==
    UNION { TreeJoinNodes(RemoteExecutionsOf(query_plan[i].value)) : i \in 1..Len(query_plan) }

\* C8 (as the code has it): within the execution tree of one root field,
\* join nodes with equal RemoteJoin values carry equal JoinIds.
C8_EqualJoinsShareIdInTree ==
    \A i \in 1..Len(query_plan) :
        \A a, b \in TreeJoinNodes(RemoteExecutionsOf(query_plan[i].value)) :
            a.remote_join = b.remote_join => a.join_id = b.join_id

\* C8 (as the specification states it): join nodes with equal RemoteJoin
\* values carry equal JoinIds anywhere in the QueryPlan.
C8_EqualJoinsShareIdInPlan ==
    \A a, b \in PlanJoinNodes : a.remote_join = b.remote_join => a.join_id = b.join_id

\* One execution tree holds the same RemoteJoin under two aliases.
C8_Witness ==
    \E i \in 1..Len(query_plan) :
        /\ Cardinality(DOMAIN RemoteExecutionsOf(query_plan[i].value)) = 2
        /\ \A key \in DOMAIN RemoteExecutionsOf(query_plan[i].value) :
               RemoteExecutionsOf(query_plan[i].value)[key].join_node # None
        /\ Cardinality(TreeJoinNodes(RemoteExecutionsOf(query_plan[i].value))) = 1

\* The selection IR and the lowered NDC fields of the root query of a
\* planned model root field.
PlannedSelection(alias) == ModelSelectionOf(IndexGet(ir, alias)).selection
PlannedFields(node) == node.execution[1].execution_tree.root_node.query.query.fields[1]

\* C9 (as the specification states it): for every RemoteRelationship field
\* of the selection, the parent's NDC fields hold exactly one entry per join
\* key under the alias __hasura_phantom_field__<source column>, selecting that
\* source column, and the RemoteJoin's join_columns maps the join key to that
\* alias and the target field.
C9_PhantomColumns ==
    \A i \in 1..Len(query_plan) :
        \A f \in 1..Len(PlannedSelection(query_plan[i].key)) :
            PlannedSelection(query_plan[i].key)[f].value.tag = "RemoteRelationship" =>
                \A k \in Range(PlannedSelection(query_plan[i].key)[f]
                                   .value.relationship_info.join_mapping) :
                    /\ Cardinality({ n \in 1..Len(PlannedFields(query_plan[i].value)) :
                                       PlannedFields(query_plan[i].value)[n].key
                                           = MakeHasuraPhantomField(k.source_column) }) = 1
                    /\ IndexGet(PlannedFields(query_plan[i].value),
                                MakeHasuraPhantomField(k.source_column))
                           = ColumnSel(k.source_column)
                    /\ RemoteExecutionsOf(query_plan[i].value)
                           [PlannedSelection(query_plan[i].key)[f].key]
                           .join_node[1].remote_join.join_columns[k.source_field]
                           = [alias |-> MakeHasuraPhantomField(k.source_column),
                              target_field |-> k.target_field,
                              target_column |-> k.target_column]

\* A remote relationship planned next to a user field whose alias is spelled
\* like the relationship's phantom column.
C9_Witness ==
    /\ Len(query_plan) = 1
    /\ Len(PlannedSelection(query_plan[1].key)) = 2
    /\ PlannedSelection(query_plan[1].key)[1].value.tag = "RemoteRelationship"
    /\ PlannedSelection(query_plan[1].key)[2].key = PhantomId

\* C10 (as the specification states it): in the lowered NDC fields every
\* alias the user selected a column under still selects that column, and
\* every phantom alias selects its join key's source column.
C10_NoAliasCollision ==
    \A i \in 1..Len(query_plan) :
        \A f \in 1..Len(PlannedSelection(query_plan[i].key)) :
            /\ PlannedSelection(query_plan[i].key)[f].value.tag = "Column" =>
                   IndexGet(PlannedFields(query_plan[i].value),
                            PlannedSelection(query_plan[i].key)[f].key)
                       = PlannedSelection(query_plan[i].key)[f].value
            /\ PlannedSelection(query_plan[i].key)[f].value.tag = "RemoteRelationship" =>
                   \A k \in Range(PlannedSelection(query_plan[i].key)[f]
                                      .value.relationship_info.join_mapping) :
                       IndexGet(PlannedFields(query_plan[i].value),
                                MakeHasuraPhantomField(k.source_column))
                           = ColumnSel(k.source_column)

\* A user field whose alias is spelled like a phantom column, planned in
\* front of the remote relationship whose phantom column takes its place.
C10_Witness ==
    /\ Len(query_plan) = 1
    /\ Len(PlannedSelection(query_plan[1].key)) = 2
    /\ PlannedSelection(query_plan[1].key)[1].key = PhantomId
    /\ PlannedSelection(query_plan[1].key)[2].value.tag = "RemoteRelationship"

\* The IR holds a command whose connector source is a Procedure under a
\* Query root field or a Function under a Mutation root field.
CommandKindMismatch(root_field) ==
    /\ root_field.tag = "CommandRepresentation"
    /\ \/ root_field.root = "QueryRootField" /\ root_field.ir.ndc_source.tag = "Procedure"
       \/ root_field.root = "MutationRootField" /\ root_field.ir.ndc_source.tag = "Function"

\* C11: when the IR holds such a command, generate_query_plan fails with an
\* internal engine error: the request ends with that error, no plan exists
\* and no connector request is issued for any root field.
C11_CommandKindMismatchFailsPlan ==
    (\E i \in 1..Len(ir) : CommandKindMismatch(ir[i].value)) =>
        /\ pc \in {"ir", "done"}
        /\ query_plan = <<>>
        /\ sent = <<>>
        /\ response = <<>>
        /\ pc = "done" =>
               outcome \in
                   { Some(Err("InternalGeneric: unexpected procedure for command in Query root field")),
                     Some(Err("InternalGeneric: unexpected function for command in Mutation root field")) }

\* Planning has failed for a request whose second root field is such a
\* command and whose first is a model selection.
C11_Witness ==
    /\ pc = "done"
    /\ Len(ir) = 2
    /\ ir[1].value.tag = "ModelSelectMany"
    /\ CommandKindMismatch(ir[2].value)
    /\ outcome # None
    /\ ~outcome[1].ok

\* C12: an NDC client error becomes Error::NDCExpected, carrying the
\* connector error, exactly when it is a ConnectorError with status 200, 403
\* or 409; every other NDC client error becomes
\* InternalError::Developer(GDCClientError) wrapping the error itself.
C12_NdcErrorClassification ==
    Returned("Error::from") =>
        /\ returned[1].tag = "NDCExpected"
               <=> /\ call[1].args.tag = "ConnectorError"
                   /\ call[1].args.status \in {200, 403, 409}
        /\ returned[1].tag = "NDCExpected" =>
               returned[1].connector_error = call[1].args
        /\ returned[1].tag # "NDCExpected" =>
               /\ returned[1].tag = "InternalError"
               /\ returned[1].internal.tag = "Developer"
               /\ returned[1].internal.error.tag = "GDCClientError"
               /\ returned[1].internal.error.ndc_error = call[1].args

\* A connector error with status 403 has been classified as NDCExpected.
C12_Witness ==
    /\ Returned("Error::from")
    /\ call[1].args.tag = "ConnectorError"
    /\ call[1].args.status = 403
    /\ returned[1].tag = "NDCExpected"

\* A connector error with status 404 has been classified as a developer error.
C12_WitnessOtherStatus ==
    /\ Returned("Error::from")
    /\ call[1].args.tag = "ConnectorError"
    /\ call[1].args.status = 404
    /\ returned[1].tag = "InternalError"

IsEngineError(error) == error.tag = "InternalError" /\ error.internal.tag = "Engine"
IsDeveloperError(error) == error.tag = "InternalError" /\ error.internal.tag = "Developer"
HasConnectorDetails(error) ==
    /\ IsDeveloperError(error)
    /\ error.internal.error.tag = "GDCClientError"
    /\ error.internal.error.ndc_error.tag = "ConnectorError"

\* C13: converting an Error::InternalError that wraps an engine error gives
\* the GraphQLError with message "internal error", no path and no
\* extensions, whichever engine error it is; so two different engine errors
\* give the same client-visible error.
C13_EngineErrorMasked ==
    (Returned("GraphQLError::from") /\ IsEngineError(call[1].args)) =>
        returned[1] = [message |-> "internal error", path |-> <<>>, extensions |-> <<>>]

\* An InternalGeneric engine error with a description has been converted.
C13_Witness ==
    /\ Returned("GraphQLError::from")
    /\ IsEngineError(call[1].args)
    /\ call[1].args.internal.error.tag = "InternalGeneric"

\* C14 as stated: a developer error that carries connector details keeps
\* them in extensions.details, with the generic message.
C14_DeveloperDetailsSurfaced ==
    (Returned("GraphQLError::from") /\ HasConnectorDetails(call[1].args)) =>
        /\ returned[1].message = "internal error"
        /\ returned[1].extensions
               = <<[details |-> call[1].args.internal.error.ndc_error.details]>>

\* C14, amended: a developer error is masked exactly as an engine error is,
\* connector details included: message "internal error", no path, no
\* extensions.  Connector details reach extensions.details only for
\* Error::NDCExpected, whose message is "ndc: " followed by the connector's
\* message.
C14_DeveloperErrorMasked ==
    Returned("GraphQLError::from") =>
        /\ IsDeveloperError(call[1].args) =>
               returned[1] = [message |-> "internal error", path |-> <<>>, extensions |-> <<>>]
        /\ call[1].args.tag = "NDCExpected" =>
               /\ returned[1].message = "ndc: " \o call[1].args.connector_error.message
               /\ returned[1].path = <<>>
               /\ returned[1].extensions
                      = <<[details |-> call[1].args.connector_error.details]>>

\* A developer error wrapping a connector error with status 500 and details
\* that are not null has been converted.
C14_Witness ==
    /\ Returned("GraphQLError::from")
    /\ HasConnectorDetails(call[1].args)
    /\ call[1].args.internal.error.ndc_error.status = 500
    /\ call[1].args.internal.error.ndc_error.details # JNull

\* The session-variable values that are integers of the i32 range, with the
\* integer each denotes, and those that are JSON documents, with the value each
\* denotes.
IntegerValues ==
    { [value |-> <<"7">>, is |-> 7], [value |-> <<"-", "7">>, is |-> -7],
      [value |-> <<"+", "7">>, is |-> 7], [value |-> <<"0", "0", "7">>, is |-> 7],
      [value |-> <<"2", "1", "4", "7", "4", "8", "3", "6", "4", "7">>, is |-> 2147483647],
      [value |-> <<"+", "2", "1", "4", "7", "4", "8", "3", "6", "4", "7">>, is |-> 2147483647],
      [value |-> <<"-", "2", "1", "4", "7", "4", "8", "3", "6", "4", "7">>, is |-> -2147483647],
      [value |-> <<"-", "2", "1", "4", "7", "4", "8", "3", "6", "4", "8">>,
       is |-> (-2147483647) - 1],
      [value |-> <<"0", "0", "0", "0", "0", "0", "0", "0", "0", "0", "7">>, is |-> 7],
      [value |-> <<"1", "9", "9", "9", "9", "9", "9", "9", "9", "9">>, is |-> 1999999999],
      [value |-> <<"-", "0">>, is |-> 0] }
JsonValues ==
    { [value |-> <<"t", "r", "u", "e">>, is |-> JBool(TRUE)],
      [value |-> <<"f", "a", "l", "s", "e">>, is |-> JBool(FALSE)],
      [value |-> <<"n", "u", "l", "l">>, is |-> JNull],
      [value |-> <<"\"", "a", "\"">>, is |-> JString(<<"a">>)],
      [value |-> <<"7">>, is |-> JNumber(7)],
      [value |-> <<"-", "7">>, is |-> JNumber(-7)],
      [value |-> <<"2", "1", "4", "7", "4", "8", "3", "6", "4", "7">>, is |-> JNumber(2147483647)] }
Denoted(table, value) == { entry.is : entry \in { e \in table : e.value = value } }

CastTo(name) ==
    /\ Returned("typecast_session_variable")
    /\ ~call[1].args.to_type.list
    /\ call[1].args.to_type.name = name

\* C15: typecast_session_variable casts the string against the declared
\* type.  Int: a string that parses as an (i32) integer gives that JSON
\* integer, any other string, "true" among them, fails with VariableTypeCast.
\* Boolean: "true" and "false" give the JSON booleans, any other string fails
\* with VariableTypeCast.  String and ID: the string itself, as a JSON
\* string.  A custom scalar: the parsed JSON value when the string is valid
\* JSON, the plain string otherwise.  A list type: VariableArrayTypeCast.
C15_Typecast ==
    Returned("typecast_session_variable") =>
        /\ call[1].args.to_type.list => returned[1] = Err("VariableArrayTypeCast")
        /\ CastTo("Int") =>
               returned[1] \in
                   IF Denoted(IntegerValues, call[1].args.value) = {}
                   THEN { Err("VariableTypeCast") }
                   ELSE { Ok(JNumber(n)) : n \in Denoted(IntegerValues, call[1].args.value) }
        /\ CastTo("Boolean") =>
               returned[1] =
                   IF call[1].args.value = <<"t", "r", "u", "e">> THEN Ok(JBool(TRUE))
                   ELSE IF call[1].args.value = <<"f", "a", "l", "s", "e">> THEN Ok(JBool(FALSE))
                   ELSE Err("VariableTypeCast")
        /\ (CastTo("String") \/ CastTo("ID")) => returned[1] = Ok(JString(call[1].args.value))
        /\ CastTo("Custom") =>
               returned[1] \in
                   IF Denoted(JsonValues, call[1].args.value) = {}
                   THEN { Ok(JString(call[1].args.value)) }
                   ELSE { Ok(v) : v \in Denoted(JsonValues, call[1].args.value) }

\* "true" has been cast to Int, and the cast has failed with VariableTypeCast.
C15_Witness ==
    /\ CastTo("Int")
    /\ call[1].args.value = <<"t", "r", "u", "e">>
    /\ returned[1] = Err("VariableTypeCast")

\* A custom scalar has been cast from a string that is not JSON.
C15_WitnessCustomPlain ==
    /\ CastTo("Custom")
    /\ call[1].args.value = <<"7", "a">>
    /\ returned[1] = Ok(JString(<<"7", "a">>))

RECURSIVE HasRelationship(_)
HasRelationship(p) ==
    CASE p.tag = "Relationship" -> TRUE
      [] p.tag = "Not" -> HasRelationship(p.predicate)
      [] p.tag \in {"And", "Or"} -> \E i \in 1..Len(p.predicates) : HasRelationship(p.predicates[i])
      [] OTHER -> FALSE

\* The binary comparisons of a predicate that process_model_predicate can
\* come to: those outside every Relationship node.
RECURSIVE ComparisonsOf(_)
ComparisonsOf(p) ==
    CASE p.tag = "BinaryFieldComparison" -> {p}
      [] p.tag = "Not" -> ComparisonsOf(p.predicate)
      [] p.tag \in {"And", "Or"} -> UNION { ComparisonsOf(p.predicates[i]) : i \in 1..Len(p.predicates) }
      [] OTHER -> {}

ComparisonErrors(p, session_variables) ==
    { r.err : r \in { c \in { MakeValueFromValueExpression(b.value, b.argument_type, session_variables)
                              : b \in ComparisonsOf(p) } : ~c.ok } }

\* C16 as stated: a predicate that contains a Relationship node, at the top
\* or nested, fails with the error of the Relationship arm.
C16_RelationshipErrorEverywhere ==
    (Returned("process_model_predicate") /\ HasRelationship(call[1].args.model_predicate)) =>
        returned[1] = Err(RelationshipPredicateError)

\* C16, amended: a predicate that contains a Relationship node is never
\* lowered: process_model_predicate returns an error and no expression.  The
\* error is InternalGeneric "'relationship' model predicate is not supported
\* yet." when the Relationship node is the predicate itself or when every
\* comparison of the predicate lowers; otherwise it is that error or the
\* error (missing session variable, failed typecast) of a comparison.
C16_RelationshipNeverLowered ==
    (Returned("process_model_predicate") /\ HasRelationship(call[1].args.model_predicate)) =>
        /\ ~returned[1].ok
        /\ returned[1].val = <<>>
        /\ returned[1].err \in
               {RelationshipPredicateError}
                   \cup ComparisonErrors(call[1].args.model_predicate,
                                         call[1].args.session_variables)
        /\ call[1].args.model_predicate.tag = "Relationship" =>
               returned[1].err = RelationshipPredicateError

\* A Relationship node nested under Not under And, next to comparisons that
\* lower, has been rejected with the error of the Relationship arm.
C16_Witness ==
    /\ Returned("process_model_predicate")
    /\ call[1].args.model_predicate.tag = "And"
    /\ call[1].args.model_predicate.predicates[1].tag = "Not"
    /\ call[1].args.model_predicate.predicates[1].predicate.tag = "Relationship"
    /\ returned[1] = Err(RelationshipPredicateError)

\* A Relationship node that follows a comparison whose session variable is
\* missing: the comparison's error is returned.
C16_WitnessOtherError ==
    /\ Returned("process_model_predicate")
    /\ call[1].args.model_predicate = AndP(<<TenantIs, RelP("posts", IdIsOne)>>)
    /\ returned[1] = Err("MissingSessionVariable")

\* The target model a resolve_relationship call names, when it is declared,
\* and that model's connector, when the model has a source on a declared one.
TargetKnown == QualifiedTargetModelName(call[1].args.target, ResolutionSubgraph) \in DOMAIN ResolutionModels
TargetModel == ResolutionModels[QualifiedTargetModelName(call[1].args.target, ResolutionSubgraph)]
TargetHasConnector ==
    /\ TargetKnown
    /\ TargetModel.source # None
    /\ TargetModel.source[1].data_connector \in DOMAIN ResolutionDataConnectors
TargetConnector == ResolutionDataConnectors[TargetModel.source[1].data_connector]

\* C17 as stated: a target on a connector without query.variables fails with
\* RelationshipTargetDoesNotSupportForEach, and every Relationship returned
\* carries RelationshipCapabilities derived from the target connector.
C17_EveryRelationshipHasCapabilities ==
    Returned("resolve_relationship") =>
        /\ (TargetHasConnector /\ ~TargetConnector.variables) =>
               returned[1] = Err("RelationshipTargetDoesNotSupportForEach")
        /\ returned[1].ok =>
               /\ TargetHasConnector
               /\ returned[1].val.target_capabilities
                      = <<[foreach |-> <<>>, relationships |-> TargetConnector.relationships]>>

\* C17, amended: a target model whose connector lacks query.variables fails
\* with RelationshipTargetDoesNotSupportForEach, so no Relationship returned
\* targets such a model.  A Relationship returned for a target model that has
\* a source carries Some(RelationshipCapabilities) with `relationships` taken
\* from that model's connector; one returned for a target model without a
\* source carries no capabilities (None).
C17_ForEachRequiredOfConnector ==
    Returned("resolve_relationship") =>
        /\ (TargetHasConnector /\ ~TargetConnector.variables) =>
               returned[1] = Err("RelationshipTargetDoesNotSupportForEach")
        /\ returned[1].ok =>
               /\ TargetKnown
               /\ TargetModel.source = <<>> => returned[1].val.target_capabilities = <<>>
               /\ TargetModel.source # <<>> =>
                      /\ TargetHasConnector
                      /\ TargetConnector.variables
                      /\ returned[1].val.target_capabilities
                             = <<[foreach |-> <<>>, relationships |-> TargetConnector.relationships]>>

\* A relationship to Posts, whose connector has no query.variables, with a
\* valid mapping, has been rejected.
C17_Witness ==
    /\ Returned("resolve_relationship")
    /\ call[1].args.target.name = "Posts"
    /\ call[1].args.mapping = <<[source |-> FieldPath(<<"id">>), target |-> ModelField(<<"user_id">>)]>>
    /\ returned[1] = Err("RelationshipTargetDoesNotSupportForEach")

\* A relationship to Items has been resolved, with the capabilities of its
\* connector, which has query.variables and no relationships.
C17_WitnessResolved ==
    /\ Returned("resolve_relationship")
    /\ call[1].args.target.name = "Items"
    /\ returned[1].ok
    /\ returned[1].val.target_capabilities = <<[foreach |-> <<>>, relationships |-> FALSE]>>

\* A relationship to Notes, a model without a source, has been resolved.
C17_WitnessNoSource ==
    /\ Returned("resolve_relationship")
    /\ call[1].args.target.name = "Notes"
    /\ returned[1].ok
    /\ returned[1].val.target_capabilities = <<>>

\* The mappings handed to a resolve_relationship_mappings call.
CalledMappings == call[1].args.relationship.mapping
SingleSource(m) == m.source.kind = "FieldPath" /\ Len(m.source.path) = 1
SingleTarget(m) == m.target.kind = "ModelField" /\ Len(m.target.path) = 1
RepeatsAt(mapping, j) ==
    /\ SingleSource(mapping[j])
    /\ \E i \in 1..(j - 1) : SingleSource(mapping[i]) /\ mapping[i].source = mapping[j].source
\* A mapping that passes every check but the one on repeated source fields.
WellFormed(m, source_type, target_model) ==
    /\ SingleSource(m)
    /\ SingleTarget(m)
    /\ m.source.path[1] \in source_type.fields
    /\ m.target.path[1] \in target_model.type_fields

\* C18 as stated: resolve_relationship_mappings fails with
\* MappingExistsInRelationship as soon as a source field repeats, and the
\* mappings it returns have pairwise distinct source fields.
C18_RepeatIsMappingExists ==
    Returned("resolve_relationship_mappings") =>
        /\ (\E j \in 1..Len(CalledMappings) : RepeatsAt(CalledMappings, j)) =>
               returned[1] = Err("MappingExistsInRelationship")
        /\ returned[1].ok =>
               \A i, j \in 1..Len(returned[1].val) :
                   i # j => returned[1].val[i].source_field # returned[1].val[j].source_field

\* C18, amended: resolve_relationship_mappings never succeeds when a source
\* field repeats, and the mappings it returns have pairwise distinct source
\* fields.  The error is MappingExistsInRelationship when the repeating
\* mapping and those before it pass the other checks; the check on repeats
\* is the last one of a mapping, so a repeating mapping with an unsupported
\* or empty path or an unknown field fails with that check's error, and
\* MappingExistsInRelationship is returned for a repeat only.
C18_RepeatNeverResolves ==
    Returned("resolve_relationship_mappings") =>
        /\ (\E j \in 1..Len(CalledMappings) : RepeatsAt(CalledMappings, j)) => ~returned[1].ok
        /\ \A j \in 1..Len(CalledMappings) :
               (/\ RepeatsAt(CalledMappings, j)
                /\ \A k \in 1..j : WellFormed(CalledMappings[k], call[1].args.source_type,
                                              call[1].args.target_model))
                   => returned[1] = Err("MappingExistsInRelationship")
        /\ returned[1] = Err("MappingExistsInRelationship") =>
               \E j \in 1..Len(CalledMappings) : RepeatsAt(CalledMappings, j)
        /\ returned[1].ok =>
               \A i, j \in 1..Len(returned[1].val) :
                   i # j => returned[1].val[i].source_field # returned[1].val[j].source_field

\* Two mappings from the source field id to a field of the target have been
\* rejected with MappingExistsInRelationship.
C18_Witness ==
    /\ Returned("resolve_relationship_mappings")
    /\ CalledMappings = <<[source |-> FieldPath(<<"id">>), target |-> ModelField(<<"user_id">>)],
                          [source |-> FieldPath(<<"id">>), target |-> ModelField(<<"user_id">>)]>>
    /\ returned[1] = Err("MappingExistsInRelationship")

\* Two mappings from different source fields have been resolved.
C18_WitnessDistinct ==
    /\ Returned("resolve_relationship_mappings")
    /\ returned[1].ok
    /\ Len(returned[1].val) = 2

\* A mapping that repeats the source field id and names an unknown target
\* field has been rejected for the unknown field.
C18_WitnessOtherError ==
    /\ Returned("resolve_relationship_mappings")
    /\ CalledMappings = <<[source |-> FieldPath(<<"id">>), target |-> ModelField(<<"user_id">>)],
                          [source |-> FieldPath(<<"id">>), target |-> ModelField(<<"nope">>)]>>
    /\ returned[1] = Err("UnknownTargetFieldInRelationshipMapping")

\* A mapping names a field that its side does not have.
NamesUnknownField(m, source_type, target_model) ==
    \/ SingleSource(m) /\ m.source.path[1] \notin source_type.fields
    \/ SingleTarget(m) /\ m.target.path[1] \notin target_model.type_fields

\* C19: every mapping that resolve_relationship_mappings returns, and so
\* every mapping of a Relationship that resolve_relationship returns, has its
\* source field among the fields of the source type and its target field
\* among the fields of the target model's type; when a mapping names a field
\* that is missing on its side, both functions fail: no mappings and no
\* Relationship are returned, not even with the valid mappings only.
C19_MappedFieldsExist ==
    /\ Returned("resolve_relationship_mappings") =>
           /\ returned[1].ok =>
                  /\ Len(returned[1].val) = Len(CalledMappings)
                  /\ \A i \in 1..Len(returned[1].val) :
                         /\ returned[1].val[i].source_field \in call[1].args.source_type.fields
                         /\ returned[1].val[i].target_field
                                \in call[1].args.target_model.type_fields
                         /\ <<returned[1].val[i].source_field>> = CalledMappings[i].source.path
                         /\ <<returned[1].val[i].target_field>> = CalledMappings[i].target.path
           /\ (\E i \in 1..Len(CalledMappings) :
                   NamesUnknownField(CalledMappings[i], call[1].args.source_type,
                                     call[1].args.target_model))
                  => (~returned[1].ok /\ returned[1].val = <<>>)
    /\ Returned("resolve_relationship") =>
           /\ returned[1].ok =>
                  \A i \in 1..Len(returned[1].val.mappings) :
                      /\ returned[1].val.mappings[i].source_field \in UserType.fields
                      /\ returned[1].val.mappings[i].target_field \in TargetModel.type_fields
           /\ (/\ TargetKnown
               /\ \E i \in 1..Len(call[1].args.mapping) :
                      NamesUnknownField(call[1].args.mapping[i], UserType, TargetModel))
                  => (~returned[1].ok /\ returned[1].val = <<>>)

\* A valid mapping followed by one to an unknown target field: resolution of
\* the mappings has failed as a whole.
C19_Witness ==
    /\ Returned("resolve_relationship_mappings")
    /\ CalledMappings = <<[source |-> FieldPath(<<"id">>), target |-> ModelField(<<"user_id">>)],
                          [source |-> FieldPath(<<"name">>), target |-> ModelField(<<"nope">>)]>>
    /\ returned[1] = Err("UnknownTargetFieldInRelationshipMapping")

\* A relationship with an unknown source field has been rejected.
C19_WitnessSource ==
    /\ Returned("resolve_relationship")
    /\ call[1].args.target.name = "Orders"
    /\ call[1].args.mapping = <<[source |-> FieldPath(<<"nope">>), target |-> ModelField(<<"user_id">>)]>>
    /\ returned[1] = Err("UnknownSourceFieldInRelationshipMapping")

\* A relationship with two mappings has been resolved.
C19_WitnessResolved ==
    /\ Returned("resolve_relationship")
    /\ returned[1].ok
    /\ Len(returned[1].val.mappings) = 2

\* Role R has a select permission on the model / read on a field of a type.
HasSelectPermission(model, role) ==
    model.select_permissions # <<>> /\ role \in DOMAIN model.select_permissions[1]
CanRead(object_type_representation, role, field_name) ==
    /\ role \in DOMAIN object_type_representation.type_permissions
    /\ field_name \in object_type_representation.type_permissions[role].allowed_fields

\* C20: the relationship field is visible to role R if and only if R has a
\* select permission on the target model and R's type permissions allow
\* every source field, on the source type, and every target field, on the
\* target model's type, of the relationship's mappings.
C20_RelationshipFieldVisibility ==
    (Returned("object_type_fields") /\ returned[1].ok) =>
        \A role \in SchemaRoles \cup {"guest"} :
            role \in DOMAIN returned[1].val.namespaced
                <=> /\ HasSelectPermission(call[1].args.model, role)
                    /\ \A i \in 1..Len(call[1].args.relationship.mappings) :
                           /\ CanRead(call[1].args.source_object_type_representation, role,
                                      call[1].args.relationship.mappings[i].source_field)
                           /\ CanRead(call[1].args.target_object_type_representation, role,
                                      call[1].args.relationship.mappings[i].target_field)

\* admin has a select permission on the target model and read on the source
\* fields, but not on the target field total: the field is hidden from admin
\* and visible to user.
C20_Witness ==
    /\ Returned("object_type_fields")
    /\ returned[1].ok
    /\ Len(call[1].args.relationship.mappings) = 2
    /\ HasSelectPermission(call[1].args.model, "admin")
    /\ CanRead(call[1].args.source_object_type_representation, "admin", "id")
    /\ CanRead(call[1].args.source_object_type_representation, "admin", "name")
    /\ CanRead(call[1].args.target_object_type_representation, "admin", "user_id")
    /\ ~CanRead(call[1].args.target_object_type_representation, "admin", "total")
    /\ DOMAIN returned[1].val.namespaced = {"user"}

\* Both roles see the field.
C20_WitnessVisible ==
    /\ Returned("object_type_fields")
    /\ returned[1].ok
    /\ Len(call[1].args.relationship.mappings) = 2
    /\ DOMAIN returned[1].val.namespaced = {"admin", "user"}

\* Role R's type permission allows every global-id field of the type.
CanReadGlobalId(object_type_representation, role) ==
    \A i \in 1..Len(object_type_representation.global_id_fields) :
        CanRead(object_type_representation, role, object_type_representation.global_id_fields[i])

\* C21: for an object type with global-id fields, the Relay `id` field and
\* the type's membership in the Node interface are visible to role R if and
\* only if R's type permission on the type allows every global-id field; a
\* role whose type permission omits one of them sees neither.
C21_NodeInterfaceVisibility ==
    (/\ Returned("output_type_schema")
     /\ returned[1].ok
     /\ call[1].args.global_id_fields # <<>>) =>
        /\ "id" \in DOMAIN returned[1].val.fields
        /\ DOMAIN returned[1].val.interfaces = {"Node"}
        /\ \A role \in SchemaRoles \cup {"guest"} :
               /\ role \in DOMAIN returned[1].val.fields["id"]
                      <=> CanReadGlobalId(call[1].args, role)
               /\ role \in DOMAIN returned[1].val.interfaces["Node"]
                      <=> CanReadGlobalId(call[1].args, role)

\* The global id is (uid, name); admin reads both and user reads uid only:
\* admin sees the id field and the interface, user sees neither.
C21_Witness ==
    /\ Returned("output_type_schema")
    /\ returned[1].ok
    /\ call[1].args.global_id_fields = <<"uid", "name">>
    /\ CanRead(call[1].args, "user", "uid")
    /\ ~CanRead(call[1].args, "user", "name")
    /\ DOMAIN returned[1].val.fields["id"] = {"admin"}
    /\ DOMAIN returned[1].val.interfaces["Node"] = {"admin"}

\* The global-id source models of the called metadata that an object type backs.
SourceModelsOf(gds, type_name) ==
    { i \in 1..Len(gds.models) :
        gds.models[i].global_id_source /\ gds.models[i].data_type = type_name }

C22_WitnessBuilt ==
    /\ Returned("relay_node_field")
    /\ Len(call[1].args.models) = 3
    /\ returned[1].ok
    /\ DOMAIN returned[1].val.typename_mappings = {"User", "Post"}

\* The position in the plan of the root field a connector request belongs to.
PlanPosition(connector_request) ==
    CHOOSE i \in 1..Len(query_plan) : query_plan[i].key = connector_request.alias

\* C23: root fields are executed one after the other.  The connector
\* requests issued so far belong to root fields up to the current one, in
\* plan order; at most one request is in flight, it is the last one issued
\* and it belongs to the current root field.  So when a request of root
\* field j is issued, every request of every root field before j has
\* completed.
C23_SequentialRootFields ==
    /\ \A k \in 1..Len(sent) :
           /\ \E i \in 1..Len(query_plan) : query_plan[i].key = sent[k].alias
           /\ PlanPosition(sent[k]) <= cursor
           /\ \A l \in (k + 1)..Len(sent) : PlanPosition(sent[k]) <= PlanPosition(sent[l])
    /\ pending # <<>> =>
           /\ pc = "await"
           /\ sent # <<>>
           /\ pending[1] = sent[Len(sent)]
           /\ PlanPosition(pending[1]) = cursor
    /\ pc = "await" => pending # <<>>

\* The root query and a remote join of the first root field have completed
\* and the request of the second root field is in flight.
C23_Witness ==
    /\ pc = "await"
    /\ cursor = 2
    /\ Len(sent) = 3
    /\ sent[1].kind = "query"
    /\ sent[2].kind = "join"
    /\ PlanPosition(sent[2]) = 1
    /\ pending = <<sent[3]>>

\* The connector requests issued so far for the root field `alias`.
RequestsOf(alias) == { k \in 1..Len(sent) : sent[k].alias = alias }

\* The root fields planned as NDCMutationExecution whose join_locations are
\* not empty.
MutationsWithJoins ==
    { i \in 1..Len(query_plan) :
          /\ query_plan[i].value.tag = "NDCMutationExecution"
          /\ DOMAIN query_plan[i].value.mutation.join_locations # {} }

\* C24: for an NDCMutationExecution node the executor issues one mutation
\* request and no remote-join request, whatever the node's join_locations:
\* every request of the field is a mutation, there is at most one, there is
\* exactly one once the field has been executed, and the value of the field
\* is the list of the returning rows of the first operation result.
C24_MutationIssuesOneRequest ==
    \A i \in 1..Len(query_plan) :
        query_plan[i].value.tag = "NDCMutationExecution" =>
            LET alias == query_plan[i].key
            IN  /\ \A k \in RequestsOf(alias) : sent[k].kind = "mutation"
                /\ Cardinality(RequestsOf(alias)) <= 1
                /\ (i < cursor \/ (i = cursor /\ pc \in {"await", "done"})) =>
                       Cardinality(RequestsOf(alias)) = 1
                /\ \A k \in 1..Len(response) :
                       response[k].key = alias =>
                           \E n \in 0..MaxRows : response[k].value = JArray(n)

\* A mutation whose node has join locations has been executed and has its
\* value in the response.
C24_Witness ==
    \E i \in MutationsWithJoins :
        /\ i < cursor
        /\ \E k \in 1..Len(response) :
               /\ response[k].key = query_plan[i].key
               /\ response[k].value = JArray(1)

RECURSIVE LocationsLeadToJoins(_)
LocationsLeadToJoins(join_locations) ==
    \A key \in DOMAIN join_locations :
        /\ join_locations[key].join_node # None \/ DOMAIN join_locations[key].rest # {}
        /\ LocationsLeadToJoins(join_locations[key].rest)

\* The selection IR has a RemoteRelationship field at some depth.
RECURSIVE HasRemoteRelationship(_)
HasRemoteRelationship(selection) ==
    \E i \in 1..Len(selection) :
        \/ selection[i].value.tag = "RemoteRelationship"
        \/ /\ selection[i].value.tag = "LocalRelationship"
           /\ HasRemoteRelationship(selection[i].value.query.selection)

\* C26: in the JoinLocations returned by process_selection_set_ir every
\* location carries a RemoteJoin or has a non-empty rest, a LocalRelationship
\* field has a location only if there is a remote relationship below it, and
\* a selection without any RemoteRelationship yields no location at all.
C26_LocationsLeadToRemoteJoins ==
    Returned("ir_to_ndc_ir") =>
        LET selection == call[1].args.ir.selection
            join_locations == returned[1].join_locations
        IN  /\ LocationsLeadToJoins(join_locations)
            /\ \A i \in 1..Len(selection) :
                   /\ selection[i].value.tag = "LocalRelationship"
                   /\ selection[i].key \in DOMAIN join_locations
                   => HasRemoteRelationship(selection[i].value.query.selection)
            /\ ~HasRemoteRelationship(selection) => DOMAIN join_locations = {}

\* A selection with a local relationship and no remote one has been lowered
\* to no location.
C26_Witness ==
    /\ Returned("ir_to_ndc_ir")
    /\ \E i \in 1..Len(call[1].args.ir.selection) :
           call[1].args.ir.selection[i].value.tag = "LocalRelationship"
    /\ ~HasRemoteRelationship(call[1].args.ir.selection)
    /\ DOMAIN returned[1].join_locations = {}

\* A local relationship over a remote one has been lowered to a location
\* without a join node over the location of the RemoteJoin.
C26_WitnessNested ==
    /\ Returned("ir_to_ndc_ir")
    /\ \E key \in DOMAIN returned[1].join_locations :
           LET location == returned[1].join_locations[key]
           IN  /\ location.join_node = None
               /\ \E below \in DOMAIN location.rest : location.rest[below].join_node # None

\* The join nodes of the execution tree of a node of the plan, each with its
\* path, and the partition of their paths by JoinId.
PathJoinNodes(node) == JoinNodes(RemoteExecutionsOf(node), <<>>)
JoinIdPartition(node) ==
    { { a.path : a \in { b \in PathJoinNodes(node) : b.join_id = join_id } }
      : join_id \in { a.join_id : a \in PathJoinNodes(node) } }

\* C27: within one execution tree two join nodes carry the same JoinId if
\* and only if their RemoteJoins are equal, there are as many JoinIds as
\* there are distinct RemoteJoins, and every order in which assign_join_ids
\* can traverse the location maps gives the same partition of the join
\* nodes.
C27_JoinIdsPartitionByEquality ==
    pc = "plan" =>
        /\ \A i \in 1..Len(query_plan) :
               LET nodes == TreeJoinNodes(RemoteExecutionsOf(query_plan[i].value))
               IN  /\ \A a, b \in nodes :
                          (a.join_id = b.join_id) <=> (a.remote_join = b.remote_join)
                   /\ Cardinality({ a.join_id : a \in nodes })
                          = Cardinality({ a.remote_join : a \in nodes })
        /\ \A other \in GenerateQueryPlan(ir) :
               other.ok =>
                   \A i \in 1..Len(query_plan) :
                       JoinIdPartition(other.val[i].value) = JoinIdPartition(query_plan[i].value)

\* One execution tree holds two unequal RemoteJoins, numbered in the order
\* opposite to another possible plan of the same IR.
C27_Witness ==
    /\ pc = "plan"
    /\ \E i \in 1..Len(query_plan) :
           /\ Cardinality({ a.remote_join
                            : a \in TreeJoinNodes(RemoteExecutionsOf(query_plan[i].value)) }) = 2
           /\ \E other \in GenerateQueryPlan(ir) :
                  /\ other.ok
                  /\ RemoteExecutionsOf(other.val[i].value)
                         # RemoteExecutionsOf(query_plan[i].value)

\* `output` has the keys of `input` at every level, a payload exactly where
\* `input` has a RemoteJoin, and that RemoteJoin in the payload.
RECURSIVE SameJoins(_, _)
SameJoins(input, output) ==
    /\ DOMAIN output = DOMAIN input
    /\ \A key \in DOMAIN input :
           /\ (output[key].join_node = None) <=> (input[key].join_node = None)
           /\ input[key].join_node # None =>
                  output[key].join_node[1].remote_join = input[key].join_node[1]
           /\ SameJoins(input[key].rest, output[key].rest)

\* C28: assign_with_join_ids neither drops nor moves a remote join.  The
\* remote_executions of every planned model root field have the keys of the
\* JoinLocations its ModelSelection lowers to at every level, a
\* (RemoteJoin, JoinId) exactly where that tree has a RemoteJoin, and the
\* same RemoteJoin there.
C28_JoinIdsKeepLocations ==
    pc = "plan" =>
        \A i \in 1..Len(query_plan) :
            HasModelSelection(IndexGet(ir, query_plan[i].key)) =>
                SameJoins(IrToNdcIr(ModelSelectionOf(IndexGet(ir, query_plan[i].key)))
                              .join_locations,
                          RemoteExecutionsOf(query_plan[i].value))

\* A tree with a RemoteJoin below a location that carries none has been
\* given its join ids.
C28_Witness ==
    /\ pc = "plan"
    /\ \E i \in 1..Len(query_plan) :
           \E key \in DOMAIN RemoteExecutionsOf(query_plan[i].value) :
               LET location == RemoteExecutionsOf(query_plan[i].value)[key]
               IN  /\ location.join_node = None
                   /\ \E below \in DOMAIN location.rest :
                          /\ location.rest[below].join_node # None
                          /\ location.rest[below].join_node[1].join_id = 1

\* A decimal integer string: an optional sign, then one or more digits.
Unsigned(cs) == IF cs # <<>> /\ cs[1] \in {"+", "-"} THEN Tail(cs) ELSE cs
IsIntegerString(cs) ==
    /\ Unsigned(cs) # <<>>
    /\ \A i \in 1..Len(Unsigned(cs)) : IsDigit(Unsigned(cs)[i])

\* The digits of a decimal integer string without its leading zeros.
RECURSIVE StripZeros(_)
StripZeros(digits) ==
    IF digits # <<>> /\ digits[1] = "0" THEN StripZeros(Tail(digits)) ELSE digits
Magnitude(cs) == StripZeros(Unsigned(cs))

\* a <= b for two digit strings of the same length.
RECURSIVE DigitsLeq(_, _)
DigitsLeq(a, b) ==
    \/ a = <<>>
    \/ DigitVal(a[1]) < DigitVal(b[1])
    \/ a[1] = b[1] /\ DigitsLeq(Tail(a), Tail(b))

\* The value of the string lies in [-2^31, 2^31 - 1]: its magnitude has fewer
\* than ten digits, or ten digits that do not exceed those of the bound.
InI32Range(cs) ==
    \/ Len(Magnitude(cs)) < 10
    \/ /\ Len(Magnitude(cs)) = 10
       /\ DigitsLeq(Magnitude(cs),
                    IF cs[1] = "-"
                    THEN <<"2", "1", "4", "7", "4", "8", "3", "6", "4", "8">>
                    ELSE <<"2", "1", "4", "7", "4", "8", "3", "6", "4", "7">>)

\* The integer a string in the i32 range denotes: minus the sum of its
\* digits weighted by the powers of ten, negated unless the sign is "-".
RECURSIVE MinusValue(_)
MinusValue(digits) ==
    IF digits = <<>> THEN 0
    ELSE MinusValue(SubSeq(digits, 1, Len(digits) - 1)) * 10 - DigitVal(digits[Len(digits)])
ValueOf(cs) == IF cs[1] = "-" THEN MinusValue(Magnitude(cs)) ELSE -MinusValue(Magnitude(cs))

\* C29: a session variable cast to Int is bounded to the signed 32-bit
\* range.  The cast succeeds only for a decimal string whose value lies in
\* [-2^31, 2^31 - 1] and then yields exactly that integer; a decimal string
\* whose value lies outside that range fails with VariableTypeCast, it is
\* neither wrapped nor truncated.
C29_IntBoundedToI32 ==
    CastTo("Int") =>
        /\ returned[1].ok =>
               /\ IsIntegerString(call[1].args.value)
               /\ InI32Range(call[1].args.value)
               /\ returned[1].val = JNumber(ValueOf(call[1].args.value))
               /\ returned[1].val.n >= I32Min
               /\ returned[1].val.n <= I32Max
        /\ IsIntegerString(call[1].args.value) =>
               returned[1] = IF InI32Range(call[1].args.value)
                             THEN Ok(JNumber(ValueOf(call[1].args.value)))
                             ELSE Err("VariableTypeCast")

\* -2^31 has been cast to Int.
C29_Witness ==
    /\ CastTo("Int")
    /\ call[1].args.value = <<"-", "2", "1", "4", "7", "4", "8", "3", "6", "4", "8">>
    /\ returned[1] = Ok(JNumber(I32Min))

\* 2^31 and 2^32 + 7 have been cast to Int, and the casts have failed.
C29_WitnessAbove ==
    /\ CastTo("Int")
    /\ call[1].args.value = <<"2", "1", "4", "7", "4", "8", "3", "6", "4", "8">>
    /\ returned[1] = Err("VariableTypeCast")
C29_WitnessWrap ==
    /\ CastTo("Int")
    /\ call[1].args.value = <<"4", "2", "9", "4", "9", "6", "7", "3", "0", "3">>
    /\ returned[1] = Err("VariableTypeCast")

\* C30: the executor of the wasm entry point is total.  While it runs, the
\* response holds the aliases of the root fields done so far in plan order;
\* it returns a mapping with exactly the aliases of the plan in plan order;
\* every RelayNodeSelect and every NDCMutationExecution node yields null, as
\* does a field whose resolution or serialization fails; and no connector
\* request is issued.
C30_WasmExecutorTotal ==
    /\ sent = <<>>
    /\ pending = <<>>
    /\ pc = "plan" =>
           /\ cursor <= Len(query_plan) + 1
           /\ Keys(response) = Keys(SubSeq(query_plan, 1, cursor - 1))
    /\ \A k \in 1..Len(response) :
           query_plan[k].value.tag \in {"RelayNodeSelect", "NDCMutationExecution"} =>
               response[k].value = JNull
    /\ pc = "done" /\ query_plan # <<>> =>
           /\ outcome # <<>>
           /\ outcome[1].ok
           /\ outcome[1].val = response
           /\ Keys(response) = Keys(query_plan)

\* A plan with a mutation and a local field has been executed to the end.
C30_Witness ==
    /\ pc = "done"
    /\ Len(query_plan) = 2
    /\ \E k \in 1..2 : query_plan[k].value.tag = "NDCMutationExecution"
    /\ outcome = <<Ok(response)>>
    /\ Keys(response) = Keys(query_plan)

\* A Relay node field with a query and a field whose resolution has failed
\* have both come out null.
C30_WitnessNode ==
    /\ pc = "done"
    /\ Len(response) = 2
    /\ \E k \in 1..2 :
           /\ query_plan[k].value.tag = "RelayNodeSelect"
           /\ query_plan[k].value.execution # <<>>
    /\ \E k \in 1..2 : query_plan[k].value.tag = "TypeField"
    /\ \A k \in 1..2 : response[k].value = JNull

====
